---- MODULE Spec2Model ----
(***************************************************************************)
(* Orchestration engine of bdorc/ebo: the runOrchestrator loop             *)
(* (src/src/orchestrator.ts) with the retry policy (retry.ts), the gate    *)
(* and review pipelines, the tracker calls it makes and the sleep          *)
(* inhibitor.  One action per awaited call of the loop; the synchronous    *)
(* code that follows an await up to the next await belongs to the action.  *)
(***************************************************************************)
EXTENDS Integers, Sequences, FiniteSets, TLC

(* ------------------------------ bounds --------------------------------- *)
\* number of issues the tracker holds (ids 1..NumIssues, id order = priority)
NumIssues == 2
\* config.maxIterations of the run
maxIterations == 2
\* number of configured reviews, when reviews are configured
MaxReviews == 2

\* config.maxRetries ?? 3 (the command line never sets it)
maxRetries == 3

Issues == 1..NumIssues

Range(s) == {s[k] : k \in 1..Len(s)}

(* --------------------------- retry policy ------------------------------ *)
\* Text is a sequence of one-character strings.
ToLower(c) ==
  CASE c = "A" -> "a"
    [] c = "B" -> "b"
    [] c = "C" -> "c"
    [] c = "D" -> "d"
    [] c = "E" -> "e"
    [] c = "F" -> "f"
    [] c = "G" -> "g"
    [] c = "H" -> "h"
    [] c = "I" -> "i"
    [] c = "J" -> "j"
    [] c = "K" -> "k"
    [] c = "L" -> "l"
    [] c = "M" -> "m"
    [] c = "N" -> "n"
    [] c = "O" -> "o"
    [] c = "P" -> "p"
    [] c = "Q" -> "q"
    [] c = "R" -> "r"
    [] c = "S" -> "s"
    [] c = "T" -> "t"
    [] c = "U" -> "u"
    [] c = "V" -> "v"
    [] c = "W" -> "w"
    [] c = "X" -> "x"
    [] c = "Y" -> "y"
    [] c = "Z" -> "z"
    [] OTHER -> c

LowerText(t) == [i \in 1..Len(t) |-> ToLower(t[i])]

\* the whitespace String.prototype.trim removes (the samples use blank, tab, newline)
IsWhitespace(c) == c \in {" ", "\t", "\n"}

\* part occurs in text at position i
OccursAt(text, part, i) ==
  /\ i + Len(part) - 1 <= Len(text)
  /\ \A k \in 1..Len(part) : text[i + k - 1] = part[k]

\* least position >= from where part occurs in text, 0 when there is none
FindFrom(text, part, from) ==
  LET hits == {i \in from..(Len(text) + 1) : OccursAt(text, part, i)}
  IN IF hits = {} THEN 0 ELSE CHOOSE i \in hits : \A j \in hits : i <= j

\* literal parts joined by ".*": each part occurs after the previous one
RECURSIVE MatchParts(_, _, _)
MatchParts(text, parts, from) ==
  IF parts = <<>> THEN TRUE
  ELSE LET at == FindFrom(text, Head(parts), from)
       IN IF at = 0 THEN FALSE
          ELSE MatchParts(text, Tail(parts), at + Len(Head(parts)))

PatternTestCaseSensitive(pattern, text) == MatchParts(text, pattern.parts, 1)

\* RegExp.prototype.test for the patterns of the catalogue
PatternTest(pattern, text) ==
  IF pattern.ignoreCase
    THEN MatchParts(LowerText(text),
                    [i \in 1..Len(pattern.parts) |-> LowerText(pattern.parts[i])], 1)
    ELSE MatchParts(text, pattern.parts, 1)

TRANSIENT_ERROR_PATTERNS ==
  <<
    [parts |-> <<<<"S", "y", "n", "t", "a", "x", "E", "r", "r", "o", "r", ":">>,
                 <<"J", "S", "O", "N">>>>,
     ignoreCase |-> TRUE],
    [parts |-> <<<<"U", "n", "e", "x", "p", "e", "c", "t", "e", "d">>,
                 <<"J", "S", "O", "N">>>>,
     ignoreCase |-> TRUE],
    [parts |-> <<<<"U", "n", "e", "x", "p", "e", "c", "t", "e", "d", " ", "t", "o", "k", "e", "n">>>>,
     ignoreCase |-> TRUE],
    [parts |-> <<<<"U", "n", "e", "x", "p", "e", "c", "t", "e", "d", " ", "e", "n", "d", " ", "o", "f">>>>,
     ignoreCase |-> TRUE],
    [parts |-> <<<<"E", "C", "O", "N", "N", "R", "E", "S", "E", "T">>>>,
     ignoreCase |-> TRUE],
    [parts |-> <<<<"E", "T", "I", "M", "E", "D", "O", "U", "T">>>>,
     ignoreCase |-> TRUE],
    [parts |-> <<<<"E", "C", "O", "N", "N", "R", "E", "F", "U", "S", "E", "D">>>>,
     ignoreCase |-> TRUE],
    [parts |-> <<<<"s", "o", "c", "k", "e", "t", " ", "h", "a", "n", "g", " ", "u", "p">>>>,
     ignoreCase |-> TRUE],
    [parts |-> <<<<"N", "e", "t", "w", "o", "r", "k", "E", "r", "r", "o", "r">>>>,
     ignoreCase |-> TRUE],
    [parts |-> <<<<"F", "a", "i", "l", "e", "d", " ", "t", "o", " ", "f", "e", "t", "c", "h">>>>,
     ignoreCase |-> TRUE],
    [parts |-> <<<<"r", "e", "q", "u", "e", "s", "t", " ", "t", "o">>,
                 <<"f", "a", "i", "l", "e", "d">>>>,
     ignoreCase |-> TRUE],
    [parts |-> <<<<"r", "a", "t", "e", " ", "l", "i", "m", "i", "t">>>>,
     ignoreCase |-> TRUE],
    [parts |-> <<<<"4", "2", "9">>>>,
     ignoreCase |-> FALSE],
    [parts |-> <<<<"t", "o", "o", " ", "m", "a", "n", "y", " ", "r", "e", "q", "u", "e", "s", "t", "s">>>>,
     ignoreCase |-> TRUE],
    [parts |-> <<<<"o", "v", "e", "r", "l", "o", "a", "d">>>>,
     ignoreCase |-> TRUE],
    [parts |-> <<<<"5", "0", "3">>>>,
     ignoreCase |-> FALSE],
    [parts |-> <<<<"s", "e", "r", "v", "i", "c", "e", " ", "u", "n", "a", "v", "a", "i", "l", "a", "b", "l", "e">>>>,
     ignoreCase |-> TRUE],
    [parts |-> <<<<"i", "n", "t", "e", "r", "n", "a", "l", "_", "e", "r", "r", "o", "r">>>>,
     ignoreCase |-> TRUE],
    [parts |-> <<<<"I", "n", "t", "e", "r", "n", "a", "l", "E", "r", "r", "o", "r">>>>,
     ignoreCase |-> TRUE],
    [parts |-> <<<<"5", "0", "0">>,
                 <<"I", "n", "t", "e", "r", "n", "a", "l">>>>,
     ignoreCase |-> TRUE]
  >>

isTransientClaudeError(error) ==
  IF error = <<>> \/ \A i \in 1..Len(error) : IsWhitespace(error[i])
    THEN FALSE
    ELSE \E p \in 1..Len(TRANSIENT_ERROR_PATTERNS) :
           PatternTest(TRANSIENT_ERROR_PATTERNS[p], error)

\* error texts an agent invocation may end with
ErrEmpty == <<>>
ErrPermission == <<"P", "e", "r", "m", "i", "s", "s", "i", "o", "n", " ", "d", "e", "n", "i", "e", "d">>
ErrConnReset == <<"E", "r", "r", "o", "r", ":", " ", "E", "C", "O", "N", "N", "R", "E", "S", "E", "T">>
AgentErrors == {ErrEmpty, ErrPermission, ErrConnReset}

\* isTransientClaudeError of each of these texts
Transient == [e \in AgentErrors |-> isTransientClaudeError(e)]

(* ------------------------------ gates ---------------------------------- *)
\* the four gates of runAllGates in declaration order
GateNames == <<"tests", "typecheck", "format", "lint">>

\* the gate configurations of the runs checked: no gate, and two gates
GateConfigs == {{}, {"tests", "lint"}}

\* a gate run: configured gate name -> exit code was 0
GateRuns(cfg) == [cfg -> BOOLEAN]

\* mutant: the gate results are not looked at
GatesPassedAlways(results) == TRUE

\* passed of runAllGates: no result, or every result passed
GatesPassed(results) ==
  DOMAIN results = {} \/ \A g \in DOMAIN results : results[g]

\* mutant: only one failing gate is reported
FailingGatesOnlyOne(results) ==
  LET f == {g \in DOMAIN results : ~results[g]}
  IN IF f = {} THEN {} ELSE {CHOOSE g \in f : TRUE}

\* names of the results with passed = false
FailingGates(results) == {g \in DOMAIN results : ~results[g]}

(* ------------------------------ state ---------------------------------- *)
VARIABLES
  pc,                 \* position of runOrchestrator (the call it awaits next)
  op,                 \* the call or step performed last
  gatesConfig,        \* names of the configured gates
  reviewsCount,       \* reviewsConfig.reviews.length
  vcsEnabled,         \* vcsConfig.enabled
  resumeIssues,       \* config.resumeIssues
  resumeQueue,
  iteration,
  issue,              \* id of the item of the current iteration, 0 before the first
  isResume,
  completed,
  failed,
  gateFailures,
  idleMessagePrinted,
  streakNotices,      \* idle notices printed since the last poll that returned work
  claudeAttempt,
  lastError,
  fixAttempt,
  fixLastError,
  reviewIndex,        \* position in config.reviews of the review in hand
  reviewsRun,
  retryResult,        \* results of the gate re-run
  status,             \* tracker: issue id -> status
  notes,              \* tracker: issue id -> notes appended by this run
  inhibitor,          \* the sleep inhibitor holds a helper process
  trace,              \* stages finished in the current iteration, with outcome
  claimed,            \* ids this run resumed or set in_progress
  cycleCalls,         \* agent invocations made in the current retry cycle
  delayAttempt        \* argument of the last getRetryDelay call of the iteration, -1 if none

\* the process manager and the child processes of the engine
VARIABLES
  alive,              \* child processes spawned by the engine that still run
  childProcesses,     \* the registry of the process manager (keys of the Map)
  isShuttingDown,
  exitCode,           \* exit status of the orchestrator process, -1 while it runs
  pendingSignals,     \* signals received whose listener has not run yet
  sent,               \* child -> signals the process manager sent it (kill calls)
  gateExit,           \* gate -> exit code, for the gates of the call that exited
  gateReturn          \* what the last runAllGates call returned

procVars == <<alive, childProcesses, isShuttingDown, exitCode, pendingSignals,
              sent, gateExit, gateReturn>>

configVars == <<gatesConfig, reviewsCount, vcsEnabled, resumeIssues>>
resultVars == <<completed, failed, gateFailures>>
trackerVars == <<status, notes>>
retryVars == <<claudeAttempt, lastError, fixAttempt, fixLastError, cycleCalls,
               delayAttempt>>
reviewVars == <<reviewIndex, reviewsRun>>
itemVars == <<resumeQueue, iteration, issue, isResume, claimed>>
idleVars == <<idleMessagePrinted, streakNotices>>

\* a call of runAllReviews seen with the diffs it fetches and hands on
VARIABLES
  diff,               \* the local diff of runAllReviews: text and number of the fetch
  fetches,            \* getDiff calls made by the call so far
  prompts,            \* review prompts sent to the agent: review and diff handed on
  reviewsResult       \* what runAllReviews returned

reviewCallVars == <<diff, fetches, prompts, reviewsResult>>

\* calls of the retry policy functions
VARIABLES
  errorText,          \* argument of isTransientClaudeError
  transientResult,    \* what it returned
  delayArgs,          \* arguments of getRetryDelay and the value of Math.random
  delayResult         \* what it returned

policyVars == <<errorText, transientResult, delayArgs, delayResult>>

\* the command line
VARIABLES
  cliOption           \* --max-iterations: given or not, and its value; --quiet

cliVars == <<cliOption>>

\* verbose: !options.quiet
verbose == ~cliOption.quiet

\* the default of --max-iterations
DefaultMaxIterations == 100

\* iterations a run without limit is followed for
IterationCap == 101

\* the limit of the loop: a count, or Infinity
Finite(n) == [infinite |-> FALSE, count |-> n]
Infinity == [infinite |-> TRUE, count |-> 0]

\* options.maxIterations === 100 ? Infinity : options.maxIterations
ConfigMaxIterations(option) ==
  IF option.count = DefaultMaxIterations THEN Infinity ELSE Finite(option.count)

\* iteration < maxIterations, for the maxIterations the command hands over
LoopCondition ==
  LET limit == ConfigMaxIterations(cliOption)
  IN limit.infinite \/ iteration < limit.count

\* child processes seen one by one: the handle the sleep inhibitor holds and
\* a call of killAllProcesses
VARIABLES
  helper,             \* the variable process of createSleepInhibitor: a handle, 0 for null
  names,              \* handle -> name, for the processes spawned so far
  killPc,             \* position of the killAllProcesses call
  signalled,          \* handles the call has called kill("SIGTERM") on
  exitPromises        \* handles whose exit promise has not resolved yet

managerVars == <<helper, names, killPc, signalled, exitPromises>>

\* what the loop of runOrchestrator does not touch
outsideLoop == <<procVars, reviewCallVars, policyVars, cliVars, managerVars>>

vars == <<pc, op, configVars, resultVars, trackerVars, retryVars, reviewVars,
          itemVars, idleVars, retryResult, inhibitor, trace,
          outsideLoop>>

\* the child processes the engine spawns: the sleep-inhibitor helper, the
\* agent, the gate commands and the VCS command
Children == {"systemd-inhibit", "claude", "jj"} \cup Range(GateNames)

\* no child runs, nothing is registered, no signal was received
ProcessesInit ==
  /\ alive = {}
  /\ childProcesses = {}
  /\ isShuttingDown = FALSE
  /\ exitCode = -1
  /\ pendingSignals = <<>>
  /\ sent = [c \in Children |-> <<>>]
  /\ gateExit = <<>>
  /\ gateReturn = <<>>

\* ascending sequence of the ids in S
RECURSIVE SortedSeq(_)
SortedSeq(S) ==
  IF S = {} THEN <<>>
  ELSE LET m == CHOOSE x \in S : \A y \in S : x <= y
       IN <<m>> \o SortedSeq(S \ {m})

InProgress(st) == {i \in Issues : st[i] = "in_progress"}

\* the tracker at the start of a run: the first n issues were left in_progress
\* by an earlier run, the others are open
InitialStatuses ==
  {[i \in Issues |-> IF i <= n THEN "in_progress" ELSE "open"] : n \in 0..NumIssues}

\* the state runOrchestrator starts its loop in, for these numbers of reviews
\* and these states of the tracker
LoopStartFrom(reviewCounts, statuses) ==
  /\ pc = "loop"
  /\ op = "start"
  /\ gatesConfig \in GateConfigs
  /\ reviewsCount \in reviewCounts
  /\ vcsEnabled \in BOOLEAN
  /\ status \in statuses
  /\ resumeIssues = SortedSeq(InProgress(status))
  /\ resumeQueue = resumeIssues
  /\ iteration = 0
  /\ issue = 0
  /\ isResume = FALSE
  /\ completed = <<>>
  /\ failed = <<>>
  /\ gateFailures = 0
  /\ idleMessagePrinted = FALSE
  /\ streakNotices = 0
  /\ claudeAttempt = 0
  /\ lastError = <<>>
  /\ fixAttempt = 0
  /\ fixLastError = <<>>
  /\ reviewIndex = 0
  /\ reviewsRun = 0
  /\ retryResult = <<>>
  /\ notes = [i \in Issues |-> <<>>]
  /\ inhibitor = FALSE
  /\ trace = <<>>
  /\ claimed = {}
  /\ cycleCalls = 0
  /\ delayAttempt = -1

LoopStart(reviewCounts) == LoopStartFrom(reviewCounts, InitialStatuses)

\* the runs checked have no review or MaxReviews of them
LoopInit == LoopStart({0, MaxReviews})

\* no call of runAllReviews is under way
ReviewCallIdle ==
  /\ diff = [text |-> <<>>, fetch |-> 0]
  /\ fetches = 0
  /\ prompts = <<>>
  /\ reviewsResult = <<>>

\* no call of a retry policy function is under way
PolicyIdle ==
  /\ errorText = <<>>
  /\ transientResult = <<>>
  /\ delayArgs = <<>>
  /\ delayResult = -1

\* --max-iterations as the run of the loop has it
CliIdle == cliOption = [given |-> TRUE, count |-> maxIterations, quiet |-> FALSE]

\* nothing was spawned, the inhibitor holds nothing, no killAllProcesses call
ManagerIdle ==
  /\ helper = 0
  /\ names = <<>>
  /\ killPc = "idle"
  /\ signalled = {}
  /\ exitPromises = {}

\* a run with no item left in_progress, no gate, no review and no VCS
LoopIdle ==
  /\ LoopInit
  /\ gatesConfig = {}
  /\ reviewsCount = 0
  /\ ~vcsEnabled
  /\ status = [i \in Issues |-> "open"]

Init ==
  /\ LoopInit
  /\ ProcessesInit
  /\ ReviewCallIdle
  /\ PolicyIdle
  /\ CliIdle
  /\ ManagerIdle

Stage(name, ok) == [stage |-> name, ok |-> ok]

Note(kind, gates) == [kind |-> kind, gates |-> gates]

\* the locals declared inside the loop body as they are at the top of an
\* iteration; they go out of scope when an iteration ends
FreshLocals ==
  /\ claudeAttempt' = 0
  /\ lastError' = <<>>
  /\ fixAttempt' = 0
  /\ fixLastError' = <<>>
  /\ cycleCalls' = 0
  /\ delayAttempt' = -1
  /\ reviewIndex' = 0
  /\ reviewsRun' = 0
  /\ retryResult' = <<>>

(* ------------------------- runOrchestrator ----------------------------- *)
\* mutant: the resume queue is never looked at
ResumePendingNever == FALSE

\* if (resumeQueue.length > 0)
ResumePending == Len(resumeQueue) > 0

\* while (iteration < maxIterations) is false: disable the inhibitor and return
LoopExit ==
  /\ pc = "loop"
  /\ ~LoopCondition
  /\ pc' = "returned"
  /\ op' = "return"
  /\ inhibitor' = FALSE
  /\ UNCHANGED <<outsideLoop, configVars, resultVars, trackerVars, retryVars, reviewVars,
                 itemVars, idleVars, retryResult, trace>>

\* mutant: a resumed item is not counted as an iteration
TakeResumeNotCounted ==
  /\ pc = "loop"
  /\ LoopCondition
  /\ iteration < IterationCap
  /\ ResumePending
  /\ issue' = Head(resumeQueue)
  /\ resumeQueue' = Tail(resumeQueue)
  /\ isResume' = TRUE
  /\ claimed' = claimed \cup {Head(resumeQueue)}
  /\ iteration' = iteration
  /\ inhibitor' = TRUE
  /\ FreshLocals
  /\ trace' = <<>>
  /\ pc' = "agent"
  /\ op' = "resume"
  /\ UNCHANGED <<outsideLoop, configVars, resultVars, trackerVars, idleVars>>

\* resumeQueue.shift(), then enable the inhibitor and start the issue cycle
TakeResume ==
  /\ pc = "loop"
  /\ LoopCondition
  /\ iteration < IterationCap
  /\ ResumePending
  /\ issue' = Head(resumeQueue)
  /\ resumeQueue' = Tail(resumeQueue)
  /\ isResume' = TRUE
  /\ claimed' = claimed \cup {Head(resumeQueue)}
  /\ iteration' = iteration + 1
  /\ inhibitor' = TRUE
  /\ FreshLocals
  /\ trace' = <<>>
  /\ pc' = "agent"
  /\ op' = "resume"
  /\ UNCHANGED <<outsideLoop, configVars, resultVars, trackerVars, idleVars>>

\* getReadyWork throws: break, disable the inhibitor and return
GetReadyWorkError ==
  /\ pc = "loop"
  /\ LoopCondition
  /\ ~ResumePending
  /\ pc' = "returned"
  /\ op' = "getReadyWork"
  /\ inhibitor' = FALSE
  /\ UNCHANGED <<outsideLoop, configVars, resultVars, trackerVars, retryVars, reviewVars,
                 itemVars, idleVars, retryResult, trace>>

\* mutant: the inhibitor is left as it is when the loop goes idle
GetReadyWorkEmptyKeepsInhibitor ==
  /\ pc = "loop"
  /\ LoopCondition
  /\ ~ResumePending
  /\ pc' = "sleep"
  /\ op' = "getReadyWork"
  /\ idleMessagePrinted' = (idleMessagePrinted \/ verbose)
  /\ streakNotices' = IF ~idleMessagePrinted /\ verbose THEN streakNotices + 1
                                                         ELSE streakNotices
  /\ UNCHANGED <<outsideLoop, configVars, resultVars, trackerVars, retryVars, reviewVars,
                 itemVars, retryResult, trace, inhibitor>>

\* getReadyWork returns []: disable the inhibitor, idle notice once (verbose
\* run), sleep
GetReadyWorkEmpty ==
  /\ pc = "loop"
  /\ LoopCondition
  /\ ~ResumePending
  /\ pc' = "sleep"
  /\ op' = "getReadyWork"
  /\ inhibitor' = FALSE
  /\ idleMessagePrinted' = (idleMessagePrinted \/ verbose)
  /\ streakNotices' = IF ~idleMessagePrinted /\ verbose THEN streakNotices + 1
                                                         ELSE streakNotices
  /\ UNCHANGED <<outsideLoop, configVars, resultVars, trackerVars, retryVars, reviewVars,
                 itemVars, retryResult, trace>>

\* the poll interval elapses: continue
PollSleep ==
  /\ pc = "sleep"
  /\ pc' = "loop"
  /\ op' = "sleep"
  /\ UNCHANGED <<outsideLoop, configVars, resultVars, trackerVars, retryVars, reviewVars,
                 itemVars, idleVars, retryResult, inhibitor, trace>>

\* mutant: the idle flag is not reset when a poll returns work
GetReadyWorkSomeKeepsFlag(i) ==
  /\ pc = "loop"
  /\ LoopCondition
  /\ iteration < IterationCap
  /\ ~ResumePending
  /\ status[i] = "open"
  /\ idleMessagePrinted' = idleMessagePrinted
  /\ streakNotices' = 0
  /\ issue' = i
  /\ isResume' = FALSE
  /\ iteration' = iteration + 1
  /\ FreshLocals
  /\ trace' = <<>>
  /\ pc' = "claim"
  /\ op' = "getReadyWork"
  /\ UNCHANGED <<outsideLoop, configVars, resultVars, trackerVars, resumeQueue, claimed,
                 inhibitor>>

\* getReadyWork returns a list whose first element is the open issue i
GetReadyWorkSome(i) ==
  /\ pc = "loop"
  /\ LoopCondition
  /\ iteration < IterationCap
  /\ ~ResumePending
  /\ status[i] = "open"
  /\ idleMessagePrinted' = FALSE
  /\ streakNotices' = 0
  /\ issue' = i
  /\ isResume' = FALSE
  /\ iteration' = iteration + 1
  /\ FreshLocals
  /\ trace' = <<>>
  /\ pc' = "claim"
  /\ op' = "getReadyWork"
  /\ UNCHANGED <<outsideLoop, configVars, resultVars, trackerVars, resumeQueue, claimed,
                 inhibitor>>

\* updateStatus(issue.id, "in_progress") returns: enable the inhibitor
ClaimOk ==
  /\ pc = "claim"
  /\ status' = [status EXCEPT ![issue] = "in_progress"]
  /\ inhibitor' = TRUE
  /\ trace' = Append(trace, Stage("claim", TRUE))
  /\ claimed' = claimed \cup {issue}
  /\ pc' = "agent"
  /\ op' = "updateStatus"
  /\ UNCHANGED <<outsideLoop, configVars, resultVars, notes, retryVars, reviewVars,
                 resumeQueue, iteration, issue, isResume, idleVars,
                 retryResult>>

\* updateStatus throws: failed.push(issue.id); continue
ClaimFail ==
  /\ pc = "claim"
  /\ failed' = Append(failed, issue)
  /\ trace' = Append(trace, Stage("claim", FALSE))
  /\ pc' = "loop"
  /\ op' = "updateStatus"
  /\ UNCHANGED <<outsideLoop, configVars, completed, gateFailures, trackerVars, retryVars,
                 reviewVars, itemVars, idleVars, retryResult, inhibitor>>

\* mutant: the retry loop runs once more
RetryConditionInclusive(attempt) == attempt <= maxRetries

\* condition of the retry loops: while (attempt < maxRetries)
RetryCondition(attempt) == attempt < maxRetries

\* condition of the backoff wait after a transient failure
WaitCondition(attempt) == attempt < maxRetries

\* mutant: the wait is computed from the attempt counter as it stands
DelayArgumentOneBased(attempt) == attempt

\* the argument of getRetryDelay after the attempt counter was advanced:
\* getRetryDelay(claudeAttempt - 1), getRetryDelay(fixAttempt - 1)
DelayArgument(attempt) == attempt - 1

\* mutant: every failure is retried like a transient one
RetryStepRetriesAll(attempt, error) ==
  [attempt |-> attempt + 1,
   next |-> IF WaitCondition(attempt + 1) THEN "backoff"
            ELSE IF RetryCondition(attempt + 1) THEN "again"
            ELSE "failed"]

\* where a retry loop goes after an invocation failed with this error text:
\* a transient error counts an attempt and waits or ends the loop, any other
\* error breaks out of it
RetryStep(attempt, error) ==
  IF Transient[error]
    THEN [attempt |-> attempt + 1,
          next |-> IF WaitCondition(attempt + 1) THEN "backoff"
                   ELSE IF RetryCondition(attempt + 1) THEN "again"
                   ELSE "failed"]
    ELSE [attempt |-> attempt, next |-> "failed"]

\* the stage that follows a successful issue cycle
AfterAgent == IF reviewsCount > 0 THEN "reviews" ELSE "gates"

\* the stage that follows passing gates
AfterGates == IF vcsEnabled THEN "commit" ELSE "close"

\* runClaudeCode(prompt) succeeds: leave the retry loop
RunClaudeCodeOk ==
  /\ pc = "agent"
  /\ cycleCalls' = cycleCalls + 1
  /\ UNCHANGED delayAttempt
  /\ trace' = Append(trace, Stage("agent", TRUE))
  /\ pc' = AfterAgent
  /\ op' = "runClaudeCode"
  /\ UNCHANGED <<outsideLoop, configVars, resultVars, trackerVars, claudeAttempt, lastError,
                 fixAttempt, fixLastError, reviewVars, itemVars,
                 idleVars, retryResult, inhibitor>>

\* runClaudeCode(prompt) fails with error text e
RunClaudeCodeFail(e) ==
  /\ pc = "agent"
  /\ cycleCalls' = cycleCalls + 1
  /\ lastError' = e
  /\ LET r == RetryStep(claudeAttempt, e)
     IN /\ claudeAttempt' = r.attempt
        /\ delayAttempt' = IF r.next = "backoff" THEN DelayArgument(r.attempt)
                                                 ELSE delayAttempt
        /\ pc' = CASE r.next = "backoff" -> "backoff"
                   [] r.next = "again" -> "agent"
                   [] OTHER -> "agentFailed"
        /\ trace' = IF r.next = "failed"
                      THEN Append(trace, Stage("agent", FALSE)) ELSE trace
  /\ op' = "runClaudeCode"
  /\ UNCHANGED <<outsideLoop, configVars, resultVars, trackerVars, fixAttempt, fixLastError,
                 reviewVars, itemVars, idleVars, retryResult,
                 inhibitor>>

\* the backoff delay of the issue cycle elapses: back to the loop condition
Backoff ==
  /\ pc = "backoff"
  /\ pc' = IF RetryCondition(claudeAttempt) THEN "agent" ELSE "agentFailed"
  /\ trace' = IF RetryCondition(claudeAttempt) THEN trace
              ELSE Append(trace, Stage("agent", FALSE))
  /\ op' = "backoff"
  /\ UNCHANGED <<outsideLoop, configVars, resultVars, trackerVars, retryVars, reviewVars,
                 itemVars, idleVars, retryResult, inhibitor>>

\* mutant: the iteration ends without the note
NoteSkipped(kind, gates) ==
  /\ notes' = notes
  /\ pc' = "loop"
  /\ op' = "addNotes"

\* end of an iteration that appended a note: continue
NoteAndContinue(kind, gates) ==
  /\ notes' = [notes EXCEPT ![issue] = Append(@, Note(kind, gates))]
  /\ pc' = "loop"
  /\ op' = "addNotes"

\* addNotes throws: nothing catches it, runOrchestrator rejects
AddNotesThrows ==
  /\ pc \in {"agentFailed", "reviewsFailed", "fixFailed", "stillFailing"}
  /\ pc' = "threw"
  /\ op' = "addNotes"
  /\ UNCHANGED <<outsideLoop, configVars, resultVars, trackerVars, retryVars, reviewVars,
                 itemVars, idleVars, retryResult, inhibitor, trace>>

\* mutant: the abandoned item is put back to open
AgentFailedReopens ==
  /\ pc = "agentFailed"
  /\ NoteAndContinue("agent", {})
  /\ failed' = Append(failed, issue)
  /\ status' = [status EXCEPT ![issue] = "open"]
  /\ FreshLocals
  /\ UNCHANGED <<outsideLoop, configVars, completed, gateFailures, itemVars,
                 idleVars, inhibitor, trace>>

\* the issue cycle failed: addNotes, failed.push(issue.id), continue
AgentFailed ==
  /\ pc = "agentFailed"
  /\ NoteAndContinue("agent", {})
  /\ failed' = Append(failed, issue)
  /\ FreshLocals
  /\ UNCHANGED <<outsideLoop, configVars, completed, gateFailures, status, itemVars,
                 idleVars, inhibitor, trace>>

(* runAllReviews *)
\* mutant: a failed review pipeline is taken for a passed one
ReviewsFailIgnored ==
  /\ trace' = Append(trace, Stage("reviews", FALSE))
  /\ reviewIndex' = 0
  /\ pc' = "gates"

\* runAllReviews returns success = false (and reviewsRun)
ReviewsFail ==
  /\ trace' = Append(trace, Stage("reviews", FALSE))
  /\ reviewIndex' = 0
  /\ pc' = "reviewsFailed"

\* runAllReviews returns success = true (and reviewsRun)
ReviewsPass ==
  /\ trace' = Append(trace, Stage("reviews", TRUE))
  /\ reviewIndex' = 0
  /\ pc' = "gates"

\* the first getDiff: it throws, or the diff is blank, or there is a diff
GetDiffFirst(outcome) ==
  /\ pc = "reviews"
  /\ CASE outcome = "error" -> ReviewsFail /\ UNCHANGED reviewsRun
       [] outcome = "empty" -> ReviewsPass /\ UNCHANGED reviewsRun
       [] OTHER -> /\ pc' = "review"
                   /\ reviewIndex' = 1
                   /\ reviewsRun' = 0
                   /\ UNCHANGED trace
  /\ op' = "getDiff"
  /\ UNCHANGED <<outsideLoop, configVars, resultVars, trackerVars, retryVars, itemVars,
                 idleVars, retryResult, inhibitor>>

\* runReview of the review in hand: the agent invocation succeeds or fails
RunReview(success) ==
  /\ pc = "review"
  /\ reviewsRun' = reviewsRun + 1
  /\ IF success THEN pc' = "rediff" /\ UNCHANGED <<trace, reviewIndex>>
                ELSE ReviewsFail
  /\ op' = "runReview"
  /\ UNCHANGED <<outsideLoop, configVars, resultVars, trackerVars, retryVars, itemVars,
                 idleVars, retryResult, inhibitor>>

\* getDiff after a successful review
GetDiffAgain(outcome) ==
  /\ pc = "rediff"
  /\ CASE outcome = "error" -> ReviewsFail /\ UNCHANGED reviewsRun
       [] outcome = "empty" -> ReviewsPass /\ UNCHANGED reviewsRun
       [] OTHER -> IF reviewIndex < reviewsCount
                     THEN /\ pc' = "review"
                          /\ reviewIndex' = reviewIndex + 1
                          /\ UNCHANGED <<reviewsRun, trace>>
                     ELSE ReviewsPass /\ UNCHANGED reviewsRun
  /\ op' = "getDiff"
  /\ UNCHANGED <<outsideLoop, configVars, resultVars, trackerVars, retryVars, itemVars,
                 idleVars, retryResult, inhibitor>>

\* mutant: a review failure abandons the item like an agent failure
ReviewsFailedAbandons ==
  /\ pc = "reviewsFailed"
  /\ NoteAndContinue("reviews", {})
  /\ failed' = Append(failed, issue)
  /\ FreshLocals
  /\ UNCHANGED <<outsideLoop, configVars, completed, gateFailures, status, itemVars,
                 idleVars, inhibitor, trace>>

\* the reviews failed: addNotes, continue (the item stays in_progress)
ReviewsFailed ==
  /\ pc = "reviewsFailed"
  /\ NoteAndContinue("reviews", {})
  /\ FreshLocals
  /\ UNCHANGED <<outsideLoop, configVars, resultVars, status, itemVars,
                 idleVars, inhibitor, trace>>

(* gates and the fix round *)
\* runAllGates after the agent and the reviews (reviewsResult is out of scope)
RunAllGates(results) ==
  /\ pc = "gates"
  /\ reviewIndex' = 0
  /\ reviewsRun' = 0
  /\ trace' = Append(trace, Stage("gates", FailingGates(results) = {}))
  /\ IF GatesPassed(results)
       THEN /\ pc' = AfterGates
            /\ UNCHANGED <<gateFailures, fixAttempt, fixLastError, cycleCalls>>
       ELSE /\ gateFailures' = gateFailures + 1
            /\ fixAttempt' = 0
            /\ fixLastError' = <<>>
            /\ cycleCalls' = 0
            /\ pc' = "fix"
  /\ op' = "runAllGates"
  /\ UNCHANGED <<outsideLoop, configVars, completed, failed, trackerVars, claudeAttempt,
                 lastError, delayAttempt, itemVars, idleVars, retryResult,
                 inhibitor>>

\* runClaudeCode(fixPrompt) succeeds
RunFixOk ==
  /\ pc = "fix"
  /\ cycleCalls' = cycleCalls + 1
  /\ UNCHANGED delayAttempt
  /\ trace' = Append(trace, Stage("fix", TRUE))
  /\ pc' = "regate"
  /\ op' = "runClaudeCode"
  /\ UNCHANGED <<outsideLoop, configVars, resultVars, trackerVars, claudeAttempt, lastError,
                 fixAttempt, fixLastError, reviewVars, itemVars,
                 idleVars, retryResult, inhibitor>>

\* runClaudeCode(fixPrompt) fails with error text e
RunFixFail(e) ==
  /\ pc = "fix"
  /\ cycleCalls' = cycleCalls + 1
  /\ fixLastError' = e
  /\ LET r == RetryStep(fixAttempt, e)
     IN /\ fixAttempt' = r.attempt
        /\ delayAttempt' = IF r.next = "backoff" THEN DelayArgument(r.attempt)
                                                 ELSE delayAttempt
        /\ pc' = CASE r.next = "backoff" -> "fixBackoff"
                   [] r.next = "again" -> "fix"
                   [] OTHER -> "fixFailed"
        /\ trace' = IF r.next = "failed"
                      THEN Append(trace, Stage("fix", FALSE)) ELSE trace
  /\ op' = "runClaudeCode"
  /\ UNCHANGED <<outsideLoop, configVars, resultVars, trackerVars, claudeAttempt, lastError,
                 reviewVars, itemVars, idleVars, retryResult,
                 inhibitor>>

\* the backoff delay of the fix cycle elapses
FixBackoff ==
  /\ pc = "fixBackoff"
  /\ pc' = IF RetryCondition(fixAttempt) THEN "fix" ELSE "fixFailed"
  /\ trace' = IF RetryCondition(fixAttempt) THEN trace
              ELSE Append(trace, Stage("fix", FALSE))
  /\ op' = "backoff"
  /\ UNCHANGED <<outsideLoop, configVars, resultVars, trackerVars, retryVars, reviewVars,
                 itemVars, idleVars, retryResult, inhibitor>>

\* mutant: a fix failure abandons the item like an agent failure
FixFailedAbandons ==
  /\ pc = "fixFailed"
  /\ NoteAndContinue("fix", {})
  /\ failed' = Append(failed, issue)
  /\ FreshLocals
  /\ UNCHANGED <<outsideLoop, configVars, completed, gateFailures, status, itemVars,
                 idleVars, inhibitor, trace>>

\* the fix cycle failed: addNotes, continue (the item stays in_progress)
FixFailed ==
  /\ pc = "fixFailed"
  /\ NoteAndContinue("fix", {})
  /\ FreshLocals
  /\ UNCHANGED <<outsideLoop, configVars, resultVars, status, itemVars,
                 idleVars, inhibitor, trace>>

\* mutant: another fix round
AfterRetryFailedFixAgain == "fix"

\* where the loop goes when the re-run of the gates did not pass
AfterRetryFailed == "stillFailing"

\* runAllGates again after a successful fix
RerunAllGates(results) ==
  /\ pc = "regate"
  /\ retryResult' = results
  /\ trace' = Append(trace, Stage("gates", FailingGates(results) = {}))
  /\ pc' = IF GatesPassed(results) THEN AfterGates ELSE AfterRetryFailed
  /\ op' = "runAllGates"
  /\ UNCHANGED <<outsideLoop, configVars, resultVars, trackerVars, retryVars, reviewVars,
                 itemVars, idleVars, inhibitor>>

\* gates still failing: addNotes with the names of the failing gates, continue
StillFailing ==
  /\ pc = "stillFailing"
  /\ NoteAndContinue("gates", FailingGates(retryResult))
  /\ FreshLocals
  /\ UNCHANGED <<outsideLoop, configVars, resultVars, status, itemVars,
                 idleVars, inhibitor, trace>>

(* commit and close *)
\* commitWork returns, with success or not: go on to close
CommitWork(success) ==
  /\ pc = "commit"
  /\ trace' = Append(trace, Stage("commit", success))
  /\ pc' = "close"
  /\ op' = "commitWork"
  /\ UNCHANGED <<outsideLoop, configVars, resultVars, trackerVars, retryVars, reviewVars,
                 itemVars, idleVars, retryResult, inhibitor>>

\* commitWork throws (jj cannot be spawned): caught, failed.push(issue.id)
CommitThrows ==
  /\ pc = "commit"
  /\ trace' = Append(trace, Stage("commit", FALSE))
  /\ failed' = Append(failed, issue)
  /\ pc' = "loop"
  /\ op' = "commitWork"
  /\ FreshLocals
  /\ UNCHANGED <<outsideLoop, configVars, completed, gateFailures, trackerVars, itemVars,
                 idleVars, inhibitor>>

\* mutant: the closed item is not recorded as completed
CloseOkNotRecorded ==
  /\ pc = "close"
  /\ status' = [status EXCEPT ![issue] = "closed"]
  /\ trace' = Append(trace, Stage("close", TRUE))
  /\ pc' = "loop"
  /\ op' = "closeIssue"
  /\ FreshLocals
  /\ UNCHANGED <<outsideLoop, configVars, resultVars, notes, itemVars,
                 idleVars, inhibitor>>

\* closeIssue returns: completed.push(issue.id)
CloseOk ==
  /\ pc = "close"
  /\ status' = [status EXCEPT ![issue] = "closed"]
  /\ completed' = Append(completed, issue)
  /\ trace' = Append(trace, Stage("close", TRUE))
  /\ pc' = "loop"
  /\ op' = "closeIssue"
  /\ FreshLocals
  /\ UNCHANGED <<outsideLoop, configVars, failed, gateFailures, notes, itemVars,
                 idleVars, inhibitor>>

\* mutant: the id is pushed to failed twice
CloseFailRecordedTwice ==
  /\ pc = "close"
  /\ failed' = failed \o <<issue, issue>>
  /\ trace' = Append(trace, Stage("close", FALSE))
  /\ pc' = "loop"
  /\ op' = "closeIssue"
  /\ FreshLocals
  /\ UNCHANGED <<outsideLoop, configVars, completed, gateFailures, trackerVars, itemVars,
                 idleVars, inhibitor>>

\* closeIssue throws: caught, failed.push(issue.id)
CloseFail ==
  /\ pc = "close"
  /\ failed' = Append(failed, issue)
  /\ trace' = Append(trace, Stage("close", FALSE))
  /\ pc' = "loop"
  /\ op' = "closeIssue"
  /\ FreshLocals
  /\ UNCHANGED <<outsideLoop, configVars, completed, gateFailures, trackerVars, itemVars,
                 idleVars, inhibitor>>

DiffOutcomes == {"error", "empty", "diff"}

Next ==
  \/ LoopExit
  \/ TakeResume
  \/ GetReadyWorkError
  \/ GetReadyWorkEmpty
  \/ PollSleep
  \/ \E i \in Issues : GetReadyWorkSome(i)
  \/ ClaimOk
  \/ ClaimFail
  \/ RunClaudeCodeOk
  \/ \E e \in AgentErrors : RunClaudeCodeFail(e)
  \/ Backoff
  \/ AddNotesThrows
  \/ AgentFailed
  \/ \E o \in DiffOutcomes : GetDiffFirst(o)
  \/ \E s \in BOOLEAN : RunReview(s)
  \/ \E o \in DiffOutcomes : GetDiffAgain(o)
  \/ ReviewsFailed
  \/ \E r \in GateRuns(gatesConfig) : RunAllGates(r)
  \/ RunFixOk
  \/ \E e \in AgentErrors : RunFixFail(e)
  \/ FixBackoff
  \/ FixFailed
  \/ \E r \in GateRuns(gatesConfig) : RerunAllGates(r)
  \/ StillFailing
  \/ \E s \in BOOLEAN : CommitWork(s)
  \/ CommitThrows
  \/ CloseOk
  \/ CloseFail

Spec == Init /\ [][Next]_vars

(* --------------- child processes and the process manager --------------- *)
(* The same loop seen at the level of the child processes it spawns: one   *)
(* action per spawn, per exit of a child and per continuation after an     *)
(* await, with the signal listeners of the process manager running between *)
(* them.  The loop variables that play no part here keep their initial     *)
(* values.                                                                 *)
\* signals that may wait for their listener at one time
MaxSignals == 2

Signals == {"SIGINT", "SIGTERM"}

engineVars == <<reviewsCount, resumeIssues, resultVars, trackerVars, retryVars,
                reviewVars, itemVars, idleVars, retryResult, trace,
                reviewCallVars, policyVars, cliVars, managerVars>>

\* childProcesses.set(process, ...)
registerProcess(c) == childProcesses' = childProcesses \cup {c}

\* mutant: the process stays in the registry
unregisterProcessKeeps(c) == childProcesses' = childProcesses

\* childProcesses.delete(process)
unregisterProcess(c) == childProcesses' = childProcesses \ {c}

\* work was found: sleepInhibitor.enable() spawns and registers the helper
\* unless one is held
SleepInhibitorEnable ==
  /\ pc = "loop"
  /\ IF inhibitor
       THEN UNCHANGED <<inhibitor, alive, childProcesses>>
       ELSE /\ inhibitor' = TRUE
            /\ alive' = alive \cup {"systemd-inhibit"}
            /\ registerProcess("systemd-inhibit")
  /\ pc' = "agent"
  /\ op' = "enable"
  /\ UNCHANGED <<configVars, engineVars, isShuttingDown, exitCode,
                 pendingSignals, sent, gateExit, gateReturn>>

\* no ready work: sleepInhibitor.disable() unregisters and kills the helper
SleepInhibitorDisable ==
  /\ pc = "loop"
  /\ IF inhibitor
       THEN /\ unregisterProcess("systemd-inhibit")
            /\ alive' = alive \ {"systemd-inhibit"}
            /\ inhibitor' = FALSE
       ELSE UNCHANGED <<inhibitor, alive, childProcesses>>
  /\ pc' = "sleep"
  /\ op' = "disable"
  /\ UNCHANGED <<configVars, engineVars, isShuttingDown, exitCode,
                 pendingSignals, sent, gateExit, gateReturn>>

\* runClaudeCodeStreaming: command.spawn() and registerProcess(process, "claude")
SpawnClaude ==
  /\ pc \in {"agent", "fix"}
  /\ alive' = alive \cup {"claude"}
  /\ registerProcess("claude")
  /\ pc' = IF pc = "agent" THEN "agentRunning" ELSE "fixRunning"
  /\ op' = "spawn"
  /\ UNCHANGED <<configVars, engineVars, inhibitor, isShuttingDown, exitCode,
                 pendingSignals, sent, gateExit, gateReturn>>

\* the agent process exits
ClaudeExits ==
  /\ pc \in {"agentRunning", "fixRunning"}
  /\ "claude" \in alive
  /\ alive' = alive \ {"claude"}
  /\ op' = "exit"
  /\ UNCHANGED <<pc, configVars, engineVars, inhibitor, childProcesses,
                 isShuttingDown, exitCode, pendingSignals, sent, gateExit,
                 gateReturn>>

\* process.status resolves: unregisterProcess(process), and the retry loop
\* invokes again, gives up, or the loop goes on to the gates
ClaudeReturns(outcome) ==
  /\ pc \in {"agentRunning", "fixRunning"}
  /\ "claude" \notin alive
  /\ unregisterProcess("claude")
  /\ pc' = CASE outcome = "retry" -> (IF pc = "agentRunning" THEN "agent" ELSE "fix")
             [] outcome = "failed" -> "loop"
             [] OTHER -> (IF pc = "agentRunning" THEN "gates" ELSE "regate")
  /\ op' = "runClaudeCode"
  /\ UNCHANGED <<configVars, engineVars, inhibitor, alive, isShuttingDown,
                 exitCode, pendingSignals, sent, gateExit, gateReturn>>

\* exit codes a gate command may end with
GateExitCodes == {0, 1}

\* what runGate returns for a command that exited with this code
GateResult(name, code) == [name |-> name, passed |-> code = 0]

\* the null a gate function returns when its command is not configured
NullResult == [name |-> "null", passed |-> FALSE]

\* the array Promise.all resolves to: one entry per gate function, in the
\* order tests, typecheck, format, lint
AllResults(cfg, exits) ==
  [k \in 1..Len(GateNames) |->
     IF GateNames[k] \in cfg THEN GateResult(GateNames[k], exits[GateNames[k]])
                             ELSE NullResult]

\* mutant: the results stop at the first failing gate
GateResultsShortCircuit(allResults) ==
  LET rs == SelectSeq(allResults, LAMBDA r : r # NullResult)
      bad == {k \in 1..Len(rs) : ~rs[k].passed}
  IN IF bad = {} THEN rs
     ELSE SubSeq(rs, 1, CHOOSE k \in bad : \A j \in bad : k <= j)

\* allResults.filter(r => r !== null)
GateResults(allResults) == SelectSeq(allResults, LAMBDA r : r # NullResult)

\* runAllGates starts the four gate functions: each configured one spawns
\* its command before any of them is awaited; no gate process is registered
SpawnGates ==
  /\ pc \in {"gates", "regate"}
  /\ alive' = alive \cup gatesConfig
  /\ gateExit' = <<>>
  /\ pc' = IF pc = "gates" THEN "gatesRunning" ELSE "regateRunning"
  /\ op' = "spawn"
  /\ UNCHANGED <<configVars, engineVars, inhibitor, childProcesses,
                 isShuttingDown, exitCode, pendingSignals, sent, gateReturn>>

\* the command of gate g exits with this code
GateExits(g, code) ==
  /\ pc \in {"gatesRunning", "regateRunning"}
  /\ g \in alive \cap gatesConfig
  /\ alive' = alive \ {g}
  /\ gateExit' = [x \in DOMAIN gateExit \cup {g} |->
                    IF x = g THEN code ELSE gateExit[x]]
  /\ op' = "exit"
  /\ UNCHANGED <<pc, configVars, engineVars, inhibitor, childProcesses,
                 isShuttingDown, exitCode, pendingSignals, sent, gateReturn>>

\* every gate function has resolved: runAllGates returns passed and results
GatesReturn ==
  /\ pc \in {"gatesRunning", "regateRunning"}
  /\ DOMAIN gateExit = gatesConfig
  /\ LET results == GateResults(AllResults(gatesConfig, gateExit))
         passed == GatesPassed([k \in 1..Len(results) |-> results[k].passed])
     IN /\ gateReturn' = [passed |-> passed, results |-> results]
        /\ pc' = IF passed THEN (IF vcsEnabled THEN "commit" ELSE "loop")
                 ELSE IF pc = "gatesRunning" THEN "fix" ELSE "loop"
  /\ op' = "runAllGates"
  /\ UNCHANGED <<configVars, engineVars, inhibitor, alive, childProcesses,
                 isShuttingDown, exitCode, pendingSignals, sent, gateExit>>

\* commitWithJj spawns jj commit; the process is not registered
SpawnJj ==
  /\ pc = "commit"
  /\ alive' = alive \cup {"jj"}
  /\ pc' = "commitRunning"
  /\ op' = "spawn"
  /\ UNCHANGED <<configVars, engineVars, inhibitor, childProcesses,
                 isShuttingDown, exitCode, pendingSignals, sent, gateExit,
                 gateReturn>>

\* jj exits
JjExits ==
  /\ pc = "commitRunning"
  /\ "jj" \in alive
  /\ alive' = alive \ {"jj"}
  /\ op' = "exit"
  /\ UNCHANGED <<pc, configVars, engineVars, inhibitor, childProcesses,
                 isShuttingDown, exitCode, pendingSignals, sent, gateExit,
                 gateReturn>>

\* process.output() resolves: commitWork returns and the iteration ends
CommitReturns ==
  /\ pc = "commitRunning"
  /\ "jj" \notin alive
  /\ pc' = "loop"
  /\ op' = "commitWork"
  /\ UNCHANGED <<configVars, engineVars, inhibitor, alive, childProcesses,
                 isShuttingDown, exitCode, pendingSignals, sent, gateExit,
                 gateReturn>>

(* the signal listeners installed by installSignalHandlers *)
\* mutant: the registry is not emptied
killAllProcessesSyncKeepsRegistry ==
  /\ sent' = [c \in Children |->
                IF c \in childProcesses THEN Append(sent[c], "SIGTERM")
                                        ELSE sent[c]]
  /\ childProcesses' = childProcesses

\* process.kill("SIGTERM") for every entry of the registry (the call throws
\* for a child that has exited, which is caught), then childProcesses.clear()
killAllProcessesSync ==
  /\ sent' = [c \in Children |->
                IF c \in childProcesses THEN Append(sent[c], "SIGTERM")
                                        ELSE sent[c]]
  /\ childProcesses' = {}

\* 128 + the number of the signal
SignalExitCode(signal) == IF signal = "SIGINT" THEN 130 ELSE 143

\* mutant: the listener cleans up at every signal and leaves the exit to the
\* loop
handleSignalRepeats(signal) ==
  /\ isShuttingDown' = TRUE
  /\ killAllProcessesSync
  /\ UNCHANGED <<exitCode, pc>>

\* handleSignal: a signal while shutting down forces the exit; the first one
\* sets the flag, signals the registered children and exits
handleSignal(signal) ==
  IF isShuttingDown
    THEN /\ exitCode' = 130
         /\ pc' = "exited"
         /\ UNCHANGED <<isShuttingDown, sent, childProcesses>>
    ELSE /\ isShuttingDown' = TRUE
         /\ killAllProcessesSync
         /\ exitCode' = SignalExitCode(signal)
         /\ pc' = "exited"

\* the orchestrator process has not exited
Running == exitCode < 0

\* the operating system delivers a signal to the orchestrator process
ReceiveSignal(signal) ==
  /\ Running
  /\ Len(pendingSignals) < MaxSignals
  /\ pendingSignals' = Append(pendingSignals, signal)
  /\ op' = "signal"
  /\ UNCHANGED <<pc, configVars, engineVars, inhibitor, alive, childProcesses,
                 isShuttingDown, exitCode, sent, gateExit, gateReturn>>

\* the listener of the oldest pending signal runs, between two steps of the
\* loop
HandleSignal ==
  /\ Running
  /\ pendingSignals # <<>>
  /\ handleSignal(Head(pendingSignals))
  /\ pendingSignals' = Tail(pendingSignals)
  /\ op' = "handleSignal"
  /\ UNCHANGED <<configVars, engineVars, inhibitor, alive, gateExit,
                 gateReturn>>

\* a run with no item left in_progress and no review configured
ProcInit ==
  /\ Init
  /\ reviewsCount = 0
  /\ status = [i \in Issues |-> "open"]

ProcNext ==
  \/ SleepInhibitorEnable
  \/ SleepInhibitorDisable
  \/ PollSleep
  \/ SpawnClaude
  \/ ClaudeExits
  \/ \E o \in {"ok", "retry", "failed"} : ClaudeReturns(o)
  \/ SpawnGates
  \/ \E g \in gatesConfig, code \in GateExitCodes : GateExits(g, code)
  \/ GatesReturn
  \/ SpawnJj
  \/ JjExits
  \/ CommitReturns
  \/ \E sig \in Signals : ReceiveSignal(sig)
  \/ HandleSignal

ProcSpec == ProcInit /\ [][ProcNext]_vars

(* ---------------------- a call of runAllReviews ------------------------ *)
(* runAllReviews called with any configuration, seen with the text of the  *)
(* diffs it fetches and the diff each review prompt is built from.         *)
\* texts jj diff may print: nothing, blanks only, and three diffs
DiffTexts == {<<>>, <<" ", "\n">>, <<"+", "a">>, <<"-", "a">>, <<"+", "b">>}

\* the message of the error getDiff throws
DiffErrorText == <<"F", "a", "i", "l", "e", "d">>

\* mutant: only the empty text counts as no change
IsBlankOnlyEmpty(text) == text = <<>>

\* !diff.trim()
IsBlank(text) == \A i \in 1..Len(text) : IsWhitespace(text[i])

\* the rest of the loop variables, which a call of runAllReviews leaves alone
reviewFrame == <<gatesConfig, vcsEnabled, reviewsCount, resumeIssues,
                 resultVars, trackerVars, retryVars, itemVars,
                 idleVars, retryResult, inhibitor, trace, procVars,
                 policyVars, cliVars, managerVars>>

\* runAllReviews is called: with no review configured it returns at once
CallRunAllReviews ==
  /\ pc = "loop"
  /\ IF reviewsCount = 0
       THEN /\ reviewsResult' = [success |-> TRUE, reviewsRun |-> 0]
            /\ pc' = "returned"
       ELSE /\ pc' = "reviews"
            /\ UNCHANGED reviewsResult
  /\ op' = "runAllReviews"
  /\ UNCHANGED <<reviewFrame, reviewVars, diff, fetches, prompts>>

\* the getDiff before the first review: it throws, or returns this text
FetchDiffFirst(ok, text) ==
  /\ pc = "reviews"
  /\ fetches' = fetches + 1
  /\ IF ~ok
       THEN /\ reviewsResult' = [success |-> FALSE, reviewsRun |-> 0,
                                 error |-> DiffErrorText]
            /\ pc' = "returned"
            /\ UNCHANGED <<diff, reviewVars>>
       ELSE /\ diff' = [text |-> text, fetch |-> fetches + 1]
            /\ IF IsBlank(text)
                 THEN /\ reviewsResult' = [success |-> TRUE, reviewsRun |-> 0]
                      /\ pc' = "returned"
                      /\ UNCHANGED reviewVars
                 ELSE /\ pc' = "review"
                      /\ reviewIndex' = 1
                      /\ reviewsRun' = 0
                      /\ UNCHANGED reviewsResult
  /\ op' = "getDiff"
  /\ UNCHANGED <<reviewFrame, prompts>>

\* mutant: the pipeline goes on after a failed review
SendReviewIgnoresFailure(success, error) ==
  /\ pc = "review"
  /\ prompts' = Append(prompts, [review |-> reviewIndex, diff |-> diff,
                                 success |-> success, error |-> error])
  /\ reviewsRun' = reviewsRun + 1
  /\ pc' = "rediff"
  /\ op' = "runReview"
  /\ UNCHANGED <<reviewFrame, reviewIndex, diff, fetches, reviewsResult>>

\* runReview(review, diff): the prompt built from the diff goes to the agent,
\* whose invocation succeeds or fails with this error text
SendReview(success, error) ==
  /\ pc = "review"
  /\ prompts' = Append(prompts, [review |-> reviewIndex, diff |-> diff,
                                 success |-> success, error |-> error])
  /\ reviewsRun' = reviewsRun + 1
  /\ IF success
       THEN pc' = "rediff" /\ UNCHANGED reviewsResult
       ELSE /\ reviewsResult' = [success |-> FALSE,
                                 reviewsRun |-> reviewsRun + 1,
                                 error |-> error]
            /\ pc' = "returned"
  /\ op' = "runReview"
  /\ UNCHANGED <<reviewFrame, reviewIndex, diff, fetches>>

\* mutant: the diff fetched first is kept for every review
FetchDiffAgainKeepsOld(ok, text) ==
  /\ pc = "rediff"
  /\ fetches' = fetches + 1
  /\ IF ~ok
       THEN /\ reviewsResult' = [success |-> FALSE, reviewsRun |-> reviewsRun,
                                 error |-> DiffErrorText]
            /\ pc' = "returned"
            /\ UNCHANGED <<diff, reviewIndex>>
       ELSE /\ diff' = diff
            /\ IF IsBlank(text) \/ ~(reviewIndex < reviewsCount)
                 THEN /\ reviewsResult' = [success |-> TRUE,
                                           reviewsRun |-> reviewsRun]
                      /\ pc' = "returned"
                      /\ UNCHANGED reviewIndex
                 ELSE /\ pc' = "review"
                      /\ reviewIndex' = reviewIndex + 1
                      /\ UNCHANGED reviewsResult
  /\ op' = "getDiff"
  /\ UNCHANGED <<reviewFrame, reviewsRun, prompts>>

\* the getDiff after a successful review: it throws, or returns this text;
\* a blank text or the end of the list ends the loop
FetchDiffAgain(ok, text) ==
  /\ pc = "rediff"
  /\ fetches' = fetches + 1
  /\ IF ~ok
       THEN /\ reviewsResult' = [success |-> FALSE, reviewsRun |-> reviewsRun,
                                 error |-> DiffErrorText]
            /\ pc' = "returned"
            /\ UNCHANGED <<diff, reviewIndex>>
       ELSE /\ diff' = [text |-> text, fetch |-> fetches + 1]
            /\ IF IsBlank(text) \/ ~(reviewIndex < reviewsCount)
                 THEN /\ reviewsResult' = [success |-> TRUE,
                                           reviewsRun |-> reviewsRun]
                      /\ pc' = "returned"
                      /\ UNCHANGED reviewIndex
                 ELSE /\ pc' = "review"
                      /\ reviewIndex' = reviewIndex + 1
                      /\ UNCHANGED reviewsResult
  /\ op' = "getDiff"
  /\ UNCHANGED <<reviewFrame, reviewsRun, prompts>>

\* a call with any of the review configurations, in an otherwise idle run
ReviewInit ==
  /\ LoopStart(0..MaxReviews)
  /\ gatesConfig = {}
  /\ ~vcsEnabled
  /\ status = [i \in Issues |-> "open"]
  /\ ProcessesInit
  /\ ReviewCallIdle
  /\ PolicyIdle
  /\ CliIdle
  /\ ManagerIdle

ReviewNext ==
  \/ CallRunAllReviews
  \/ \E ok \in BOOLEAN, text \in DiffTexts : FetchDiffFirst(ok, text)
  \/ \E success \in BOOLEAN, e \in AgentErrors \ {ErrEmpty} :
       SendReview(success, IF success THEN <<>> ELSE e)
  \/ \E ok \in BOOLEAN, text \in DiffTexts : FetchDiffAgain(ok, text)

ReviewSpec == ReviewInit /\ [][ReviewNext]_vars

(* ----------------------- calls of the retry policy ---------------------- *)

\* error texts of crashes, network failures, rate limits and service errors
TransientSamples ==
  {<<"E", "r", "r", "o", "r", ":", " ", "S", "y", "n", "t", "a", "x", "E", "r", "r", "o", "r", ":", " ", "U", "n", "e", "x", "p", "e", "c", "t", "e", "d", " ", "e", "n", "d", " ", "o", "f", " ", "J", "S", "O", "N", " ", "i", "n", "p", "u", "t">>,
   <<"U", "n", "e", "x", "p", "e", "c", "t", "e", "d", " ", "t", "o", "k", "e", "n", " ", "<", " ", "i", "n", " ", "J", "S", "O", "N">>,
   <<"E", "r", "r", "o", "r", ":", " ", "E", "C", "O", "N", "N", "R", "E", "S", "E", "T">>,
   <<"E", "r", "r", "o", "r", ":", " ", "E", "T", "I", "M", "E", "D", "O", "U", "T">>,
   <<"E", "r", "r", "o", "r", ":", " ", "E", "C", "O", "N", "N", "R", "E", "F", "U", "S", "E", "D">>,
   <<"R", "a", "t", "e", " ", "l", "i", "m", "i", "t", " ", "e", "x", "c", "e", "e", "d", "e", "d">>,
   <<"4", "2", "9", " ", "T", "o", "o", " ", "M", "a", "n", "y", " ", "R", "e", "q", "u", "e", "s", "t", "s">>,
   <<"5", "0", "3", " ", "S", "e", "r", "v", "i", "c", "e", " ", "U", "n", "a", "v", "a", "i", "l", "a", "b", "l", "e">>,
   <<"i", "n", "t", "e", "r", "n", "a", "l", "_", "e", "r", "r", "o", "r">>,
   <<"5", "0", "0", " ", "I", "n", "t", "e", "r", "n", "a", "l", " ", "S", "e", "r", "v", "e", "r", " ", "E", "r", "r", "o", "r">>}

\* blank texts and errors of the task itself
PermanentSamples ==
  {<<>>,
   <<" ", "\n", "\t">>,
   <<"P", "e", "r", "m", "i", "s", "s", "i", "o", "n", " ", "d", "e", "n", "i", "e", "d">>,
   <<"I", "n", "v", "a", "l", "i", "d", " ", "A", "P", "I", " ", "k", "e", "y">>,
   <<"A", "u", "t", "h", "e", "n", "t", "i", "c", "a", "t", "i", "o", "n", " ", "f", "a", "i", "l", "e", "d">>,
   <<"F", "i", "l", "e", " ", "n", "o", "t", " ", "f", "o", "u", "n", "d">>}

ErrorSamples == TransientSamples \cup PermanentSamples

\* the defaults of baseDelayMs and maxDelayMs
DefaultBaseDelayMs == 1000
DefaultMaxDelayMs == 30000

\* getRetryDelay is called for attempts 0..MaxAttempt
MaxAttempt == 5

\* Math.random() returns one of 0/RandomSteps .. (RandomSteps - 1)/RandomSteps
RandomSteps == 4

BaseDelays == {1, 3, DefaultBaseDelayMs}
MaxDelays == {1, 10, DefaultMaxDelayMs}

\* the arguments of a call of getRetryDelay and what Math.random returns in it
DelayInputs ==
  [attempt : 0..MaxAttempt, baseDelayMs : BaseDelays, maxDelayMs : MaxDelays,
   random : 0..(RandomSteps - 1)]

\* Math.pow(2, n)
RECURSIVE Pow2(_)
Pow2(n) == IF n = 0 THEN 1 ELSE 2 * Pow2(n - 1)

\* Math.min
Min(a, b) == IF a <= b THEN a ELSE b

getRetryDelayNoCap(attempt, baseDelayMs, maxDelayMs, random) ==
  LET delay == baseDelayMs * Pow2(attempt)
  IN (delay * 4 * RandomSteps + random * delay) \div (4 * RandomSteps)

\* floor(delay + jitter), jitter = (random / RandomSteps) * delay * 0.25
getRetryDelay(attempt, baseDelayMs, maxDelayMs, random) ==
  LET delay == Min(baseDelayMs * Pow2(attempt), maxDelayMs)
  IN (delay * 4 * RandomSteps + random * delay) \div (4 * RandomSteps)

\* what a call of a policy function leaves alone
policyFrame == <<pc, op, configVars, resultVars, trackerVars, retryVars,
                 reviewVars, itemVars, idleVars, retryResult,
                 inhibitor, trace, procVars, reviewCallVars, cliVars,
                 managerVars>>

\* isTransientClaudeError(errorText) returns
CallIsTransientClaudeError ==
  /\ transientResult = <<>>
  /\ transientResult' = <<isTransientClaudeError(errorText)>>
  /\ UNCHANGED <<errorText, delayArgs, delayResult, policyFrame>>

\* getRetryDelay(attempt, baseDelayMs, maxDelayMs) returns
CallGetRetryDelay ==
  /\ delayResult < 0
  /\ delayResult' = getRetryDelay(delayArgs.attempt, delayArgs.baseDelayMs,
                                  delayArgs.maxDelayMs, delayArgs.random)
  /\ UNCHANGED <<errorText, transientResult, delayArgs, policyFrame>>

PolicyInit ==
  /\ LoopIdle
  /\ ProcessesInit
  /\ ReviewCallIdle
  /\ CliIdle
  /\ ManagerIdle
  /\ errorText \in ErrorSamples
  /\ transientResult = <<>>
  /\ delayArgs \in DelayInputs
  /\ delayResult = -1

PolicyNext ==
  \/ CallIsTransientClaudeError
  \/ CallGetRetryDelay

PolicySpec == PolicyInit /\ [][PolicyNext]_vars

(* --------------------------- the command ------------------------------- *)

\* counts given with --max-iterations
OptionCounts == {0, 1, maxIterations, DefaultMaxIterations}

\* the option as parsed: a count that was given, or the default
CliOptions ==
  {[given |-> TRUE, count |-> n, quiet |-> q] : n \in OptionCounts, q \in BOOLEAN}
    \cup {[given |-> FALSE, count |-> DefaultMaxIterations, quiet |-> q] : q \in BOOLEAN}

\* what Deno.exit leaves alone
exitFrame == <<op, configVars, resultVars, trackerVars, retryVars, reviewVars,
               itemVars, idleVars, retryResult, inhibitor, trace,
               alive, childProcesses, isShuttingDown, pendingSignals, sent,
               gateExit, gateReturn, reviewCallVars, policyVars, cliVars,
               managerVars>>

\* mutant: the command exits with 0 whatever the result is
ExitAfterReturnAlwaysZero ==
  /\ pc = "returned"
  /\ exitCode' = 0
  /\ pc' = "exited"
  /\ UNCHANGED exitFrame

\* runOrchestrator returned: Deno.exit(1) if result.failed is not empty,
\* Deno.exit(0) otherwise
ExitAfterReturn ==
  /\ pc = "returned"
  /\ exitCode' = IF Len(failed) > 0 THEN 1 ELSE 0
  /\ pc' = "exited"
  /\ UNCHANGED exitFrame

\* runOrchestrator threw: the catch block calls Deno.exit(1)
ExitAfterThrow ==
  /\ pc = "threw"
  /\ exitCode' = 1
  /\ pc' = "exited"
  /\ UNCHANGED exitFrame

\* the tracker with one item open or left in_progress and the others closed
OneItemStatuses ==
  {[i \in Issues |-> IF i = 1 THEN st ELSE "closed"] : st \in {"open", "in_progress"}}

\* a run of the command on such a tracker, with gates, reviews and the VCS
\* configured
CliInit ==
  /\ LoopStartFrom({MaxReviews}, OneItemStatuses)
  /\ gatesConfig = {"tests", "lint"}
  /\ vcsEnabled
  /\ ProcessesInit
  /\ ReviewCallIdle
  /\ PolicyIdle
  /\ cliOption \in CliOptions
  /\ ManagerIdle

CliNext ==
  \/ Next
  \/ ExitAfterReturn
  \/ ExitAfterThrow

CliSpec == CliInit /\ [][CliNext]_vars

(* ------------- the process manager with processes one by one ----------- *)

\* processes spawned in a run of the calls below
MaxProcesses == 3

Handles == 1..MaxProcesses

\* the name the sleep inhibitor registers its helper under (Linux)
HelperName == "systemd-inhibit"

\* what the calls of the sleep inhibitor and of the process manager leave alone
managerFrame == <<pc, configVars, resultVars, trackerVars, retryVars, reviewVars,
                  itemVars, idleVars, retryResult, inhibitor, trace,
                  isShuttingDown, exitCode, pendingSignals, gateExit, gateReturn,
                  reviewCallVars, policyVars, cliVars>>

\* new Deno.Command(...).spawn() and registerProcess(process, name)
SpawnAndRegister(name) ==
  /\ names' = Append(names, name)
  /\ alive' = alive \cup {Len(names) + 1}
  /\ registerProcess(Len(names) + 1)

\* process.kill(): the signal is sent unless the process has exited
KillProcess(h, signal) ==
  /\ sent' = IF h \in alive THEN [sent EXCEPT ![h] = Append(@, signal)] ELSE sent
  /\ alive' = alive \ {h}

\* mutant: enable() spawns a helper whether one is held or not
InhibitorEnableAlwaysSpawns(ok) ==
  /\ IF ok /\ Len(names) < MaxProcesses
       THEN /\ SpawnAndRegister(HelperName)
            /\ helper' = Len(names) + 1
       ELSE UNCHANGED <<helper, names, alive, childProcesses>>
  /\ op' = "enable"
  /\ UNCHANGED <<sent, killPc, signalled, exitPromises, managerFrame>>

\* sleepInhibitor.enable(): nothing if a helper is held; else spawn and
\* register one, or hold nothing if the spawn throws
InhibitorEnable(ok) ==
  /\ IF helper = 0 /\ ok /\ Len(names) < MaxProcesses
       THEN /\ SpawnAndRegister(HelperName)
            /\ helper' = Len(names) + 1
       ELSE UNCHANGED <<helper, names, alive, childProcesses>>
  /\ op' = "enable"
  /\ UNCHANGED <<sent, killPc, signalled, exitPromises, managerFrame>>

\* sleepInhibitor.disable(): nothing if no helper is held; else unregister
\* it, kill it and forget it
InhibitorDisable ==
  /\ IF helper = 0
       THEN UNCHANGED <<helper, childProcesses, sent, alive>>
       ELSE /\ unregisterProcess(helper)
            /\ KillProcess(helper, "SIGTERM")
            /\ helper' = 0
  /\ op' = "disable"
  /\ UNCHANGED <<names, killPc, signalled, exitPromises, managerFrame>>

\* runClaudeCodeStreaming spawns and registers the agent
AgentSpawned ==
  /\ Len(names) < MaxProcesses
  /\ SpawnAndRegister("claude")
  /\ op' = "spawn"
  /\ UNCHANGED <<helper, sent, killPc, signalled, exitPromises, managerFrame>>

\* a child process exits
ProcessExits(h) ==
  /\ h \in alive
  /\ alive' = alive \ {h}
  /\ op' = "exit"
  /\ UNCHANGED <<childProcesses, sent, managerVars, managerFrame>>

\* process.status of an agent resolves: unregisterProcess(process)
AgentStatusObserved(h) ==
  /\ h \in childProcesses
  /\ names[h] = "claude"
  /\ h \notin alive
  /\ unregisterProcess(h)
  /\ op' = "status"
  /\ UNCHANGED <<alive, sent, managerVars, managerFrame>>

\* killAllProcesses is called: return at once with an empty registry, else
\* call kill("SIGTERM") on every registered process, start the exit promise of
\* those for which the call did not throw, and await them all
KillAllStart ==
  /\ killPc \in {"idle", "returned"}
  /\ IF childProcesses = {}
       THEN /\ killPc' = "returned"
            /\ signalled' = {}
            /\ exitPromises' = {}
            /\ sent' = sent
       ELSE /\ killPc' = "waiting"
            /\ signalled' = childProcesses
            /\ exitPromises' = childProcesses \cap alive
            /\ sent' = [h \in Handles |->
                          IF h \in childProcesses /\ h \in alive
                            THEN Append(sent[h], "SIGTERM") ELSE sent[h]]
  /\ op' = "killAllProcesses"
  /\ UNCHANGED <<alive, childProcesses, helper, names, managerFrame>>

\* the race of an exit promise is won by process.status
ExitObserved(h) ==
  /\ killPc = "waiting"
  /\ h \in exitPromises
  /\ h \notin alive
  /\ exitPromises' = exitPromises \ {h}
  /\ op' = "exitObserved"
  /\ UNCHANGED <<alive, childProcesses, sent, helper, names, killPc, signalled,
                 managerFrame>>

\* the race is won by the timeout: SIGKILL, then await process.status
GraceTimeout(h) ==
  /\ killPc = "waiting"
  /\ h \in exitPromises
  /\ h \in alive
  /\ KillProcess(h, "SIGKILL")
  /\ op' = "timeout"
  /\ UNCHANGED <<childProcesses, managerVars, managerFrame>>

\* Promise.all(exitPromises) resolves: childProcesses.clear() and return
KillAllReturns ==
  /\ killPc = "waiting"
  /\ exitPromises = {}
  /\ childProcesses' = {}
  /\ killPc' = "returned"
  /\ op' = "killAllReturned"
  /\ UNCHANGED <<alive, sent, helper, names, signalled, exitPromises, managerFrame>>

ManagerInit ==
  /\ LoopIdle
  /\ alive = {}
  /\ childProcesses = {}
  /\ isShuttingDown = FALSE
  /\ exitCode = -1
  /\ pendingSignals = <<>>
  /\ sent = [h \in Handles |-> <<>>]
  /\ gateExit = <<>>
  /\ gateReturn = <<>>
  /\ ReviewCallIdle
  /\ PolicyIdle
  /\ CliIdle
  /\ ManagerIdle

\* the sleep inhibitor and the agent at work
InhibitorNext ==
  \/ \E ok \in BOOLEAN : InhibitorEnable(ok)
  \/ InhibitorDisable
  \/ AgentSpawned
  \/ \E h \in Handles : ProcessExits(h)
  \/ \E h \in Handles : AgentStatusObserved(h)

InhibitorSpec == ManagerInit /\ [][InhibitorNext]_vars

\* the same with a caller of killAllProcesses
KillNext ==
  \/ InhibitorNext
  \/ KillAllStart
  \/ \E h \in Handles : ExitObserved(h)
  \/ \E h \in Handles : GraceTimeout(h)
  \/ KillAllReturns

KillSpec == ManagerInit /\ [][KillNext]_vars

(* --------------------- the loop with calls that return ----------------- *)

\* every external call returns and every wait ends: a step of the loop that
\* can be taken is taken
FairSpec == Init /\ [][Next]_vars /\ WF_vars(Next)

(* ------------------------------ claims --------------------------------- *)

ResumeQueueNonEmpty == resumeQueue # <<>>

\* positions of the gate runs in the trace of the current iteration
GateRunsAt(tr) == {k \in 1..Len(tr) : tr[k].stage = "gates"}

\* the most recent gate run of the iteration passed
LatestGatePassed(tr) ==
  /\ GateRunsAt(tr) # {}
  /\ \A k \in GateRunsAt(tr) : (\A j \in GateRunsAt(tr) : j <= k) => tr[k].ok

\* C1: an issue is closed (closeIssue called, its status set to closed, its id
\* appended to completed) only by the close step of an iteration whose most
\* recent runAllGates result, the first run or the re-run after the fix, had
\* every gate passing; and the commit and close steps are only reached then.
C1_ClosedOnlyAfterGatesPassed ==
  /\ [](pc \in {"commit", "close"} => LatestGatePassed(trace))
  /\ [][(\/ completed' # completed
         \/ op' = "closeIssue"
         \/ \E i \in Issues : status'[i] = "closed" /\ status[i] # "closed")
        => (pc = "close" /\ LatestGatePassed(trace))]_vars

\* an issue has just been closed after a failed gate run, a fix and a passing re-run
C1_Witness ==
  /\ op = "closeIssue"
  /\ issue \in Range(completed)
  /\ status[issue] = "closed"
  /\ Stage("gates", FALSE) \in Range(trace)
  /\ Stage("fix", TRUE) \in Range(trace)

\* C2: while the resume queue is non-empty no getReadyWork and no claim
\* (updateStatus) happens; the queue changes only by a resume step, which takes
\* its head as the item of the iteration and leaves its tail, so the items are
\* handled front to back, each removed once; what was resumed so far together
\* with what is still queued is always the queue the run was given.
C2_ResumeQueueDrainedFirst ==
  /\ [](\E n \in 0..Len(resumeIssues) :
          /\ resumeQueue = SubSeq(resumeIssues, n + 1, Len(resumeIssues))
          /\ Range(SubSeq(resumeIssues, 1, n)) \subseteq claimed)
  /\ [][/\ ResumeQueueNonEmpty => op' \notin {"getReadyWork", "updateStatus"}
        /\ (resumeQueue' # resumeQueue \/ op' = "resume")
             => /\ ResumeQueueNonEmpty
                /\ op' = "resume"
                /\ issue' = Head(resumeQueue)
                /\ isResume'
                /\ resumeQueue' = Tail(resumeQueue)
                /\ pc' = "agent"]_vars

\* a resumed run has drained its queue and only then polled for new work
C2_Witness ==
  /\ resumeIssues # <<>>
  /\ resumeQueue = <<>>
  /\ Range(resumeIssues) \subseteq claimed
  /\ op = "getReadyWork"

\* the stage an iteration may begin with
FirstStageOk(tr) ==
  tr # <<>> => tr[1].stage = (IF isResume THEN "agent" ELSE "claim")

\* stage b may directly follow stage a when a succeeded
Follows(a, b) ==
  \/ a = "claim" /\ b = "agent"
  \/ a = "agent" /\ b = (IF reviewsCount > 0 THEN "reviews" ELSE "gates")
  \/ a = "reviews" /\ b = "gates"
  \/ a = "gates" /\ b = (IF vcsEnabled THEN "commit" ELSE "close")
  \/ a = "fix" /\ b = "gates"
  \/ a = "commit" /\ b = "close"

\* the fix round: a fix follows a failed gate run, and only that
FixAfterFailedGates(a, b) == a.stage = "gates" /\ ~a.ok /\ b.stage = "fix"

\* C3 as stated: the stages of an iteration run in the order claim (new items
\* only), agent, reviews, gates, commit, close, and each stage runs only if
\* the stage before it succeeded.
C3_Original ==
  /\ FirstStageOk(trace)
  /\ \A k \in 2..Len(trace) :
       \/ FixAfterFailedGates(trace[k - 1], trace[k])
       \/ trace[k - 1].ok /\ Follows(trace[k - 1].stage, trace[k].stage)

\* C3 as amended: the same order, and every stage up to the commit runs only
\* if the stage before it succeeded (no agent after a failed claim, no reviews
\* or gates after a failed agent cycle, no gates after failed reviews, no
\* commit unless the gates passed), but the close runs after the commit
\* whether commitWork reported success or failure.
C3_StagesInOrder ==
  /\ FirstStageOk(trace)
  /\ \A k \in 2..Len(trace) :
       \/ FixAfterFailedGates(trace[k - 1], trace[k])
       \/ trace[k - 1].ok /\ Follows(trace[k - 1].stage, trace[k].stage)
       \/ trace[k - 1] = Stage("commit", FALSE) /\ trace[k].stage = "close"

\* a new item went through every stage, its commit failed and it was closed
C3_Witness ==
  /\ ~isResume
  /\ Len(trace) = 6
  /\ trace[5] = Stage("commit", FALSE)
  /\ trace[6] = Stage("close", TRUE)

\* items this run claimed or resumed that are neither closed nor abandoned
\* (recorded in failed)
Active == {i \in claimed : status[i] # "closed" /\ i \notin Range(failed)}

\* active items whose iteration has not ended with a note on the item either
Unsettled == {i \in Active : notes[i] = <<>>}

\* C4 as stated: at every instant at most one item is active, that is claimed
\* or resumed by this run and not yet closed or abandoned.
C4_Original == Cardinality(Active) <= 1

\* C4 as amended: at every instant at most one item is in hand, that is
\* claimed or resumed by this run and not yet closed, abandoned or left
\* in_progress with a note at the end of its iteration (review failure, fix
\* failure, gates still failing); it is the item of the current iteration,
\* and no item is claimed or resumed while one is in hand.  Items left
\* in_progress stay claimed while the loop takes the next item.
C4_OneItemInHand ==
  /\ [](Cardinality(Unsettled) <= 1 /\ Unsettled \subseteq {issue})
  /\ [][claimed' # claimed => Unsettled = {} /\ pc \in {"loop", "claim"}]_vars

\* a second item is in hand while the first, left in_progress by this run, is
\* still neither closed nor abandoned
C4_Witness ==
  /\ Cardinality(Active) = 2
  /\ Unsettled = {issue}
  /\ pc = "gates"

\* a step that is an agent invocation of a retry cycle (issue or fix)
CycleInvocation == pc \in {"agent", "fix"} /\ op' = "runClaudeCode"

\* the attempt counter and the last error text of the cycle in hand
CycleAttempt == IF pc \in {"agent", "backoff", "agentFailed"}
                  THEN claudeAttempt ELSE fixAttempt

CycleError == IF pc \in {"agent", "backoff", "agentFailed"}
                THEN lastError ELSE fixLastError

\* the invocation of this step failed with error text e
InvocationFailedWith(e) ==
  /\ CycleInvocation
  /\ pc' \notin {"reviews", "gates", "regate"}
  /\ (pc = "agent" => lastError' = e)
  /\ (pc = "fix" => fixLastError' = e)

\* the states in which a cycle has ended as a failure, and in which it waits
CycleFailed == {"agentFailed", "fixFailed"}

CycleWaiting == {"backoff", "fixBackoff"}

\* C5: a retry cycle (issue or fix) never makes more than maxRetries agent
\* invocations; after a transient failure it waits a backoff delay and then
\* invokes again while fewer than maxRetries invocations were made, and when
\* the maxRetries-th invocation fails transiently the cycle ends as a failure
\* with no wait and no further invocation.
C5_AtMostMaxRetriesInvocations ==
  /\ [](cycleCalls <= maxRetries)
  /\ [][/\ CycleInvocation => cycleCalls' = cycleCalls + 1
        /\ InvocationFailedWith(ErrConnReset)
             => IF cycleCalls' < maxRetries
                  THEN pc' \in CycleWaiting
                  ELSE pc' \in CycleFailed
        /\ pc = "backoff" => pc' = "agent" /\ cycleCalls < maxRetries
        /\ pc = "fixBackoff" => pc' = "fix" /\ cycleCalls < maxRetries
        /\ pc \in CycleFailed => op' = "addNotes"]_vars

\* a cycle has ended as a failure after maxRetries transient failures
C5_Witness ==
  /\ pc \in CycleFailed
  /\ cycleCalls = maxRetries
  /\ CycleAttempt = maxRetries
  /\ CycleError = ErrConnReset

\* error texts of permanent failures: the empty text and "Permission denied"
PermanentTexts == {ErrEmpty, ErrPermission}

\* C6: an agent invocation that fails with a non-transient error text (the
\* empty text included) ends its retry cycle at once: no backoff wait and no
\* further invocation follow, the attempt counter is not advanced, and the
\* next step is the addNotes call that appends the failure note to the item
\* (unless the tracker rejects that call).
C6_PermanentFailureNotRetried ==
  [][/\ \A e \in PermanentTexts :
          InvocationFailedWith(e)
            => /\ pc' \in CycleFailed
               /\ claudeAttempt' = claudeAttempt
               /\ fixAttempt' = fixAttempt
     /\ (pc \in CycleFailed /\ CycleError \in PermanentTexts)
          => /\ op' = "addNotes"
             /\ \/ pc' = "threw"
                \/ /\ pc' = "loop"
                   /\ notes'[issue] = Append(notes[issue],
                        Note(IF pc = "agentFailed" THEN "agent" ELSE "fix", {}))
                   /\ \A i \in Issues \ {issue} : notes'[i] = notes[i]]_vars

\* an invocation failed with the empty error text after one transient
\* failure, and the cycle has ended with the failure note as its next step
C6_Witness ==
  /\ pc = "agentFailed"
  /\ op = "runClaudeCode"
  /\ lastError = ErrEmpty
  /\ cycleCalls = 2
  /\ claudeAttempt = 1

\* number of entries of a stage in the trace of the current iteration
Count(tr, stage) == Cardinality({k \in 1..Len(tr) : tr[k].stage = stage})

\* C7: in one iteration runAllGates runs at most twice and the fix cycle is
\* entered at most once, after the first gate run; when the re-run fails the
\* iteration ends (with the note) and no second fix follows.
C7_OneFixRound ==
  /\ [](/\ Count(trace, "gates") <= 2
        /\ Count(trace, "fix") <= 1
        /\ (pc \in {"fix", "fixBackoff", "fixFailed"}
              => Count(trace, "gates") = 1)
        /\ (pc = "fix" => Count(trace, "fix") = 0))
  /\ [][pc = "stillFailing" => pc' \in {"loop", "threw"}]_vars

\* the gates failed, the fix succeeded and the re-run failed again
C7_Witness ==
  /\ pc = "stillFailing"
  /\ Count(trace, "gates") = 2
  /\ trace[Len(trace)] = Stage("gates", FALSE)
  /\ Stage("fix", TRUE) \in Range(trace)

\* the tracker call of this step left every status and both result lists alone
LeftInProgress ==
  /\ status[issue] = "in_progress"
  /\ status' = status
  /\ completed' = completed
  /\ failed' = failed

\* C8: when the gates failed, the fix succeeded and the re-run of the gates
\* failed again, the item stays in_progress, is not closed, its id is appended
\* to neither completed nor failed, and before the loop moves on the note that
\* names every gate failing in the re-run, and no other gate, is appended to it.
C8_StillFailingLeftInProgress ==
  /\ [](pc = "stillFailing"
          => /\ trace[Len(trace)] = Stage("gates", FALSE)
             /\ Stage("fix", TRUE) \in Range(trace)
             /\ {g \in gatesConfig : ~retryResult[g]} # {})
  /\ [][pc = "stillFailing"
          => /\ LeftInProgress
             /\ op' = "addNotes"
             /\ pc' = "loop"
                  => notes' = [notes EXCEPT ![issue] = Append(@,
                       Note("gates", {g \in gatesConfig : ~retryResult[g]}))]]_vars

\* two gates failed in the re-run, the note names both and the loop moved on
C8_Witness ==
  /\ op = "addNotes"
  /\ pc = "loop"
  /\ notes[issue] = <<Note("gates", {"tests", "lint"})>>
  /\ status[issue] = "in_progress"
  /\ issue \notin Range(completed) \cup Range(failed)

\* C9: when the review pipeline reports failure the next step is the addNotes
\* call with the failure note; the item stays in_progress, no gate run, commit
\* or close happens for it in that iteration, its id is appended to neither
\* completed nor failed, and the loop continues with the next iteration
\* (unless the tracker rejects the addNotes call).
C9_ReviewFailureLeftInProgress ==
  /\ [](\A k \in 1..Len(trace) :
          trace[k] = Stage("reviews", FALSE) => k = Len(trace))
  /\ [][/\ (Len(trace') > Len(trace)
              /\ trace'[Len(trace')] = Stage("reviews", FALSE))
             => pc' = "reviewsFailed"
        /\ pc = "reviewsFailed"
             => /\ LeftInProgress
                /\ gateFailures' = gateFailures
                /\ trace' = trace
                /\ op' = "addNotes"
                /\ \/ pc' = "threw"
                   \/ /\ pc' = "loop"
                      /\ notes' = [notes EXCEPT ![issue] =
                                     Append(@, Note("reviews", {}))]]_vars

\* the reviews failed, the note was appended and the loop went on
C9_Witness ==
  /\ op = "addNotes"
  /\ pc = "loop"
  /\ trace[Len(trace)] = Stage("reviews", FALSE)
  /\ notes[issue] = <<Note("reviews", {})>>
  /\ status[issue] = "in_progress"
  /\ issue \notin Range(completed) \cup Range(failed)

\* C10 as stated: an id is appended to failed only when the claim
\* (updateStatus) failed or when closeIssue failed.
C10_Original ==
  [][failed' # failed => op' \in {"updateStatus", "closeIssue"}]_vars

\* C10 as amended: an id is appended to failed only when the claim failed,
\* when the issue's agent retry cycle failed (after its failure note was
\* written), or when the commit-and-close step threw (commitWork or
\* closeIssue); it is the id of the item in hand, appended once.  Review
\* failure, gate failure and fix failure never put an id in failed.
C10_FailedOnlyFromClaimAgentClose ==
  [][failed' # failed
       => /\ failed' = Append(failed, issue)
          /\ \/ pc = "claim" /\ op' = "updateStatus"
             \/ pc = "agentFailed" /\ op' = "addNotes"
                  /\ trace[Len(trace)] = Stage("agent", FALSE)
             \/ pc = "commit" /\ op' = "commitWork"
             \/ pc = "close" /\ op' = "closeIssue"]_vars

\* an agent failure has put the id of the item in failed
C10_Witness ==
  /\ op = "addNotes"
  /\ trace # <<>>
  /\ trace[Len(trace)] = Stage("agent", FALSE)
  /\ failed # <<>>
  /\ failed[Len(failed)] = issue

\* the last stage of the current iteration is this one
LastStage(st) == trace # <<>> /\ trace[Len(trace)] = st

\* a tracker error was met while claiming or while closing the item in hand
ClaimOrCloseError ==
  LastStage(Stage("claim", FALSE)) \/ LastStage(Stage("close", FALSE))

\* C11: after a tracker error while claiming or while closing an item the run
\* polls no more and takes no further item, neither from the resume queue nor
\* from the ready list: the only step that may follow is the exit of the loop.
C11_TrackerErrorBreaksRun ==
  [][ClaimOrCloseError
       => /\ op' \notin {"resume", "getReadyWork"}
          /\ pc' = "returned"]_vars

\* C12: when the gates have passed and VCS integration is enabled, whatever
\* commitWork does the next step is closeIssue for the item, and the commit
\* step never puts the id in failed.
C12_CommitNeverBlocksClose ==
  [][pc = "commit" => pc' = "close" /\ failed' = failed]_vars

\* C13: when runOrchestrator has stopped, the iteration counter has reached
\* maxIterations or getReadyWork reported an error (the model of the loop has
\* no signal); no other call ends the run, a failing addNotes call included.
C13_StopsOnlyAtBoundOrReadyError ==
  pc \in {"returned", "threw"}
    => \/ pc = "returned" /\ op = "return" /\ iteration >= maxIterations
       \/ pc = "returned" /\ op = "getReadyWork"

\* the step in which closeIssue returns without an error
CloseSucceeds ==
  /\ pc = "close"
  /\ Len(trace') = Len(trace) + 1
  /\ trace'[Len(trace')] = Stage("close", TRUE)

\* number of times id i occurs in the list
Occurrences(list, i) == Cardinality({k \in 1..Len(list) : list[k] = i})

\* C14: closeIssue is reached only when the agent cycle succeeded, the reviews
\* (if configured) succeeded and the latest gate run passed; when it returns,
\* the item is closed, its id is appended to completed and failed is left
\* unchanged; no id is ever in completed twice; and when the first iteration
\* of a run ends this way completed = [id] and failed = [].
C14_SuccessfulIterationCompletes ==
  /\ [](\A i \in Issues : Occurrences(completed, i) <= 1)
  /\ [](iteration = 1 /\ LastStage(Stage("close", TRUE))
          => completed = <<issue>> /\ failed = <<>> /\ status[issue] = "closed")
  /\ [][CloseSucceeds
          => /\ Stage("agent", TRUE) \in Range(trace)
             /\ reviewsCount > 0 => Stage("reviews", TRUE) \in Range(trace)
             /\ LatestGatePassed(trace)
             /\ status' = [status EXCEPT ![issue] = "closed"]
             /\ completed' = Append(completed, issue)
             /\ failed' = failed]_vars

\* one ready item, the agent succeeded, both gates passed at the first run and
\* the item was closed in the first iteration
C14_Witness ==
  /\ iteration = 1
  /\ ~isResume
  /\ gatesConfig # {}
  /\ reviewsCount = 0
  /\ op = "closeIssue"
  /\ \A k \in 1..Len(trace) : trace[k].ok
  /\ completed = <<issue>>
  /\ failed = <<>>
  /\ status[issue] = "closed"

\* the step in which the listener of the first signal runs
FirstSignalHandled == op' = "handleSignal" /\ ~isShuttingDown

\* C15: when the listener of the first SIGINT or SIGTERM runs it sets the
\* shutdown flag, calls kill("SIGTERM") once for every process in the registry
\* at that moment and for no other, empties the registry and exits the
\* orchestrator with status 130 for SIGINT and 143 for SIGTERM; no child is
\* ever sent more than one signal.
C15_FirstSignalShutsDown ==
  /\ [](\A c \in Children : Len(sent[c]) <= 1)
  /\ [][FirstSignalHandled
          => /\ isShuttingDown'
             /\ \A c \in Children :
                  sent'[c] = IF c \in childProcesses
                               THEN Append(sent[c], "SIGTERM") ELSE sent[c]
             /\ childProcesses' = {}
             /\ Head(pendingSignals) = "SIGINT" => exitCode' = 130
             /\ Head(pendingSignals) = "SIGTERM" => exitCode' = 143]_vars

\* a SIGTERM arrived while the agent ran: the agent and the inhibitor helper
\* were each sent SIGTERM once and the orchestrator exited with 143
C15_Witness ==
  /\ exitCode = 143
  /\ isShuttingDown
  /\ childProcesses = {}
  /\ "claude" \in alive
  /\ sent["claude"] = <<"SIGTERM">>
  /\ sent["systemd-inhibit"] = <<"SIGTERM">>
  /\ \A c \in Children \ {"claude", "systemd-inhibit"} : sent[c] = <<>>

\* C16: once the orchestrator has shut down on a signal, a registered child
\* that was sent the graceful-terminate request and has not exited has also
\* been sent the forceful kill (SIGKILL).
C16_TerminateThenKill ==
  ~Running
    => \A c \in alive :
         "SIGTERM" \in Range(sent[c]) => "SIGKILL" \in Range(sent[c])

C18_RunningChildrenRegistered ==
  /\ Running => alive \subseteq childProcesses
  /\ ~Running => \A c \in alive : sent[c] # <<>>

\* position of a gate in the declaration order
GatePosition(g) == CHOOSE k \in 1..Len(GateNames) : GateNames[k] = g

C20_GatesOneAtATime == Cardinality(alive \cap Range(GateNames)) <= 1

\* the call of runAllReviews has returned
ReviewsReturned == pc = "returned" /\ reviewsResult # <<>>

\* a text that is empty or made of blanks, tabs and line ends only
OnlyWhitespace(text) == \A i \in 1..Len(text) : text[i] \in {" ", "\t", "\n"}

\* the diff fetched before the first review had no change in it
FirstDiffBlank == fetches = 1 /\ diff.fetch = 1 /\ OnlyWhitespace(diff.text)

\* C21: when runAllReviews has returned and no review is configured, or the
\* diff fetched before the first review is empty (blank), no prompt was sent
\* to the agent and the result is success = true with reviewsRun = 0; with no
\* review configured not even the diff is fetched.
C21_NothingToReview ==
  /\ (ReviewsReturned /\ (reviewsCount = 0 \/ FirstDiffBlank))
       => /\ prompts = <<>>
          /\ reviewsResult = [success |-> TRUE, reviewsRun |-> 0]
  /\ reviewsCount = 0 => fetches = 0 /\ prompts = <<>>

\* reviews are configured and the first diff holds blanks only: the call
\* returned success without a review
C21_Witness ==
  /\ ReviewsReturned
  /\ reviewsCount > 0
  /\ diff = [text |-> <<" ", "\n">>, fetch |-> 1]
  /\ prompts = <<>>
  /\ reviewsResult.success

\* C22: a review whose agent invocation failed is the last prompt sent: the
\* call has returned success = false with the error of that invocation and
\* reviewsRun counting the reviews up to it; reviewsRun is the number of
\* prompts sent and never exceeds the number of configured reviews.
C22_StopsAtFirstFailedReview ==
  /\ reviewsRun = Len(prompts)
  /\ reviewsRun <= reviewsCount
  /\ \A k \in 1..Len(prompts) :
       ~prompts[k].success
         => /\ k = Len(prompts)
            /\ ReviewsReturned
            /\ reviewsResult = [success |-> FALSE, reviewsRun |-> k,
                                error |-> prompts[k].error]

\* the first of several reviews failed and nothing more was sent
C22_Witness ==
  /\ reviewsCount > 1
  /\ Len(prompts) = 1
  /\ ~prompts[1].success
  /\ reviewsResult = [success |-> FALSE, reviewsRun |-> 1,
                      error |-> ErrPermission]

C23_SkipWitness ==
  /\ reviewsCount > 1
  /\ ReviewsReturned
  /\ Len(prompts) = 1
  /\ diff = [text |-> <<>>, fetch |-> 2]
  /\ reviewsResult = [success |-> TRUE, reviewsRun |-> 1]

\* some pattern of the catalogue matches the text
MatchesPattern(text) ==
  \E p \in 1..Len(TRANSIENT_ERROR_PATTERNS) : PatternTest(TRANSIENT_ERROR_PATTERNS[p], text)

\* C24: isTransientClaudeError returns true for every text that matches a
\* transient pattern (malformed JSON, connection errors, rate limit, 429,
\* 503, internal_error, 500 Internal) and false for the empty text, for
\* whitespace-only text, for "Permission denied" and for "Invalid API key".
C24_TransientClassification ==
  transientResult # <<>> =>
    /\ errorText \in TransientSamples => transientResult = <<TRUE>>
    /\ errorText \in PermanentSamples => transientResult = <<FALSE>>
    /\ MatchesPattern(errorText) => transientResult = <<TRUE>>
    /\ OnlyWhitespace(errorText) => transientResult = <<FALSE>>

C24_Witness ==
  /\ transientResult = <<TRUE>>
  /\ errorText \in TransientSamples
  /\ \E i \in 1..Len(errorText) : ToLower(errorText[i]) # errorText[i]

\* the cap is below base * 2^attempt in this call
DelayCapped ==
  delayArgs.baseDelayMs * Pow2(delayArgs.attempt) > delayArgs.maxDelayMs

\* C25 as stated: the delay is at most cap * 1.25 and at least base * 2^n.
C25_Original ==
  delayResult >= 0 =>
    /\ 4 * delayResult <= 5 * delayArgs.maxDelayMs
    /\ delayResult >= delayArgs.baseDelayMs * Pow2(delayArgs.attempt)

\* C25: for every attempt n >= 0, base and cap, the delay returned by
\* getRetryDelay(n, base, cap) is at most cap * 1.25 and at least
\* min(base * 2^n, cap), the delay before jitter.
C25_DelayBounds ==
  delayResult >= 0 =>
    /\ 4 * delayResult <= 5 * delayArgs.maxDelayMs
    /\ delayResult >= Min(delayArgs.baseDelayMs * Pow2(delayArgs.attempt),
                          delayArgs.maxDelayMs)

C25_Witness ==
  /\ delayResult >= 0
  /\ DelayCapped
  /\ delayArgs.random > 0
  /\ delayResult > delayArgs.maxDelayMs

\* a step that ends an iteration without closing its item
EndsUnclosed ==
  /\ pc \notin {"loop", "sleep"}
  /\ pc' = "loop"
  /\ completed' = completed

\* C26: every iteration that ends without closing its item (claim failure,
\* agent failure, review failure, fix failure, gates still failing, close
\* failure) appends a note to that item before the loop moves on.
C26_EveryFailureNoted ==
  [][EndsUnclosed => /\ Len(notes'[issue]) = Len(notes[issue]) + 1
                     /\ SubSeq(notes'[issue], 1, Len(notes[issue])) = notes[issue]]_vars

\* C27: when runOrchestrator returns, the command exits with status 0 iff
\* the returned failed list is empty and with status 1 iff it holds an id;
\* when runOrchestrator throws, the command exits with status 1.
C27_ExitStatus ==
  /\ [](exitCode >= 0 <=> pc = "exited")
  /\ [][/\ pc' = "exited" => pc \in {"returned", "threw"}
        /\ (pc = "returned" /\ pc' = "exited")
             => /\ exitCode' \in {0, 1}
                /\ exitCode' = 0 <=> failed = <<>>
                /\ exitCode' = 1 <=> failed # <<>>
        /\ (pc = "threw" /\ pc' = "exited") => exitCode' = 1]_vars

C27_Witness ==
  /\ pc = "exited"
  /\ exitCode = 1
  /\ op = "return"
  /\ failed # <<>>
  /\ completed = <<>>

\* C28: for every count N given with --max-iterations the run performs at
\* most N loop iterations; it is unbounded only when the option is not given.
C28_OptionBoundsRun ==
  cliOption.given => iteration <= cliOption.count

\* the step changes the tracker's record of item i
TrackerTouched(i) == status'[i] # status[i] \/ notes'[i] # notes[i]

\* C29: the loop never reverts an item to open and never deletes one: its
\* only tracker mutations are updateStatus(id, in_progress) on a newly picked
\* item, addNotes and closeIssue; after a failure the item keeps its status.
C29_TrackerMutations ==
  /\ [](DOMAIN status = Issues /\ DOMAIN notes = Issues)
  /\ [][/\ \A i \in Issues :
             /\ TrackerTouched(i) => i = issue /\ issue' = issue
             /\ status'[i] # status[i]
                  => \/ /\ op' = "updateStatus"
                        /\ ~isResume
                        /\ status[i] = "open"
                        /\ status'[i] = "in_progress"
                        /\ notes' = notes
                     \/ /\ op' = "closeIssue"
                        /\ status'[i] = "closed"
                        /\ notes' = notes
             /\ notes'[i] # notes[i]
                  => /\ op' = "addNotes"
                     /\ Len(notes'[i]) = Len(notes[i]) + 1
                     /\ SubSeq(notes'[i], 1, Len(notes[i])) = notes[i]
                     /\ status' = status
             /\ status[i] # "open" => status'[i] # "open"
        /\ (failed' # failed \/ gateFailures' # gateFailures \/ pc' = "threw")
             => status' = status]_vars

\* an item was claimed, its agent failed for good, and it is still in_progress
C29_Witness ==
  /\ pc = "loop"
  /\ op = "addNotes"
  /\ ~isResume
  /\ issue \in Range(failed)
  /\ status[issue] = "in_progress"
  /\ notes[issue] # <<>>

\* the steps of an iteration in which an agent, a review, a gate, a fix, a
\* commit or a close is in progress
BusySteps ==
  {"agent", "backoff", "reviews", "review", "rediff", "gates", "fix",
   "fixBackoff", "regate", "commit", "close"}

\* C30: the sleep inhibitor is disabled whenever the loop is in its idle poll
\* sleep and whenever runOrchestrator has returned after the loop ended, and
\* it is enabled whenever an agent, review, gate, fix, commit or close step
\* is in progress.
C30_InhibitorFollowsLoop ==
  /\ pc \in {"sleep", "returned"} => ~inhibitor
  /\ pc \in BusySteps => inhibitor

\* the loop worked on an item, closed it, and is now idle with the inhibitor off
C30_Witness ==
  /\ pc = "sleep"
  /\ ~inhibitor
  /\ completed # <<>>

\* the step takes an item: from the resume queue, or from the ready list
TakesItem ==
  \/ resumeQueue' # resumeQueue
  \/ pc = "loop" /\ pc' = "claim"

\* C31: the iteration counter counts work items only: it goes up by one each
\* time an item is taken from the resume queue or picked from a non-empty
\* ready list (also when the claim then fails), an idle poll leaves it
\* unchanged, and it never exceeds maxIterations.
C31_IterationCountsItems ==
  /\ [](LET limit == ConfigMaxIterations(cliOption)
        IN ~limit.infinite => iteration <= limit.count)
  /\ [][/\ TakesItem => iteration' = iteration + 1
        /\ ~TakesItem => iteration' = iteration
        /\ pc' = "sleep" => ~TakesItem
        /\ (pc = "claim" /\ pc' = "loop") => ~TakesItem]_vars

\* a run with a limit ended at the limit, a failed claim counted
C31_Witness ==
  /\ pc = "returned"
  /\ op = "return"
  /\ cliOption.count = maxIterations
  /\ iteration = maxIterations
  /\ \E k \in 1..Len(failed) : failed[k] \notin claimed

\* C32: the idle notice is emitted at most once per idle streak: between two
\* emissions there is a poll that returned ready work, and the first empty
\* poll after a poll that returned work emits the notice again (verbose mode).
C32_IdleNoticeOncePerStreak ==
  /\ streakNotices <= 1
  /\ (pc = "sleep" /\ verbose) => streakNotices = 1
  /\ ~verbose => streakNotices = 0

\* idle again after a poll that returned work: the notice was printed again
C32_Witness ==
  /\ pc = "sleep"
  /\ verbose
  /\ streakNotices = 1
  /\ iteration > 0
  /\ ~isResume

\* C33: the attempt index of the backoff is zero-based and per retry cycle:
\* the k-th backoff wait of a cycle uses getRetryDelay(k - 1), and the fix
\* cycle's attempt counter starts at 0 whatever number of retries the issue
\* cycle of the same iteration used.
C33_BackoffIndexPerCycle ==
  /\ pc \in CycleWaiting => delayAttempt = cycleCalls - 1 /\ delayAttempt >= 0
  /\ pc = "backoff" => claudeAttempt = cycleCalls
  /\ pc = "fixBackoff" => fixAttempt = cycleCalls
  /\ (pc = "fix" /\ op = "runAllGates") => fixAttempt = 0 /\ cycleCalls = 0
  /\ pc \in {"fix", "fixBackoff"} => fixAttempt <= cycleCalls /\ fixAttempt < maxRetries

\* the first wait of a fix cycle, after an issue cycle that waited twice
C33_Witness ==
  /\ pc = "fixBackoff"
  /\ claudeAttempt = 2
  /\ fixAttempt = 1
  /\ delayAttempt = 0

\* the states in which runClaudeCode has spawned the agent and awaits its exit
AgentAwaited == {"agentRunning", "fixRunning"}

\* C34: an agent process is in the registry at every moment between its
\* spawn and the observation of its exit status, and it is no longer in the
\* registry once runClaudeCode has returned; so at most one agent process is
\* registered at any time: none is registered when the next one is spawned.
C34_AgentRegisteredWhileAwaited ==
  /\ [](Running => /\ (pc \in AgentAwaited) = ("claude" \in childProcesses)
                    /\ ("claude" \in alive) => ("claude" \in childProcesses))
  /\ [][(Running /\ pc \notin AgentAwaited /\ pc' \in AgentAwaited)
          => /\ "claude" \notin childProcesses
             /\ "claude" \notin alive
             /\ "claude" \in childProcesses'
             /\ "claude" \in alive']_vars

\* the agent of the fix round has exited and its status is not yet observed,
\* after the agent of the issue cycle was unregistered
C34_Witness ==
  /\ Running
  /\ pc = "fixRunning"
  /\ "claude" \notin alive
  /\ "claude" \in childProcesses

\* C35: the number of ids in completed plus the number of ids in failed is
\* at most the iteration counter, and so is gateFailures: an iteration appends
\* at most one id, to one of the two lists, and counts at most one gate failure.
C35_ResultsBoundedByIterations ==
  /\ Len(completed) + Len(failed) <= iteration
  /\ gateFailures <= iteration
  /\ pc \notin {"loop", "sleep", "returned", "threw"}
       => /\ Len(completed) + Len(failed) <= iteration - 1
          /\ gateFailures <= iteration - (IF Count(trace, "gates") = 0 THEN 1 ELSE 0)

\* two iterations, each with a gate failure; one id completed, one failed
C35_Witness ==
  /\ pc = "loop"
  /\ iteration = 2
  /\ gateFailures = 2
  /\ Len(completed) = 1
  /\ Len(failed) = 1

\* no element occurs twice in the sequence
NoRepeat(seq) == \A j, k \in 1..Len(seq) : seq[j] = seq[k] => j = k

\* C36: in the result returned by runOrchestrator every issue id is recorded
\* at most once: no id is twice in failed or twice in completed, and no id is
\* in both, whatever the tracker answers.
C36_IdsRecordedOnce ==
  pc = "returned"
    => /\ NoRepeat(failed)
       /\ NoRepeat(completed)
       /\ Range(failed) \cap Range(completed) = {}

\* C37: runOrchestrator never stops, by returning or by a thrown error, with
\* the sleep inhibitor still enabled.
C37_InhibitorReleasedOnExit ==
  pc \in {"returned", "threw"} => ~inhibitor

\* registered processes that are sleep-inhibitor helpers
RegisteredHelpers == {h \in childProcesses : names[h] = HelperName}

\* C39: the sleep inhibitor holds at most one helper process at any time:
\* enable() while a helper is held spawns nothing, disable() with no helper
\* does nothing, disable() unregisters and kills the held helper and forgets
\* it, and a helper that is held is also in the process registry.
C39_OneHelperHeld ==
  /\ [](/\ helper # 0 => helper \in childProcesses /\ names[helper] = HelperName
        /\ RegisteredHelpers \subseteq {helper}
        /\ \A h \in alive : names[h] = HelperName => h = helper)
  /\ [][/\ (op' = "enable" /\ helper # 0)
             => UNCHANGED <<helper, names, alive, childProcesses, sent>>
        /\ (op' = "disable" /\ helper = 0)
             => UNCHANGED <<helper, names, alive, childProcesses, sent>>
        /\ (op' = "disable" /\ helper # 0)
             => /\ helper' = 0
                /\ childProcesses' = childProcesses \ {helper}
                /\ helper \notin alive'
                /\ helper \in alive => sent'[helper] = Append(sent[helper], "SIGTERM")
                /\ names' = names]_vars

\* a second helper is held and registered after the first was disabled, and
\* enable() was called again while it is held
C39_Witness ==
  /\ op = "enable"
  /\ helper = 2
  /\ names = <<HelperName, HelperName>>
  /\ childProcesses = {2}
  /\ sent[1] = <<"SIGTERM">>

\* C40: killAllProcesses removes from the registry only processes to which
\* it has sent a terminate signal, also when registerProcess and
\* unregisterProcess calls interleave with its wait, and when it returns
\* every process it signalled has exited or has been sent SIGKILL.
C40_KillAllDropsOnlySignalled ==
  /\ [](killPc = "returned"
          => \A h \in signalled : h \notin alive \/ "SIGKILL" \in Range(sent[h]))
  /\ [][op' = "killAllReturned"
          => \A h \in childProcesses \ childProcesses' : h \in signalled]_vars

\* runOrchestrator has returned at the bound or at a getReadyWork failure
ReturnedAtBoundOrError ==
  /\ pc = "returned"
  /\ \/ op = "return" /\ iteration = maxIterations
     \/ op = "getReadyWork"

\* no poll returns ready work and none fails
PollsStayEmpty == pc # "claim" /\ ~(pc = "returned" /\ op = "getReadyWork")

\* C38: with a finite maxIterations, external calls that all return and a
\* ready list that is never empty (or a getReadyWork failure), runOrchestrator
\* eventually returns, after exactly maxIterations iterations or at the first
\* getReadyWork failure; with an empty resume queue and a ready list that
\* stays empty it polls forever and never returns.
C38_ReturnsUnlessIdle ==
  /\ [](pc # "sleep") => <>ReturnedAtBoundOrError
  /\ (resumeQueue = <<>> /\ []PollsStayEmpty) => [](pc # "returned")

\* the same, counting a rejected runOrchestrator call as an end of the run
C38_ReturnsOrThrows ==
  /\ [](pc # "sleep") => <>(ReturnedAtBoundOrError \/ pc = "threw")
  /\ (resumeQueue = <<>> /\ []PollsStayEmpty) => [](pc # "returned")

====
